---- MODULE Spec2Model ----
(***************************************************************************)
(* The turn-based battle of the game: BattleState (the phase machine and   *)
(* its message queue), BattleManager (rosters, active indices, escape and  *)
(* catch resolution), Pokemon (stats, experience, moves and PP), the       *)
(* damage calculator, the type chart and the battle AI.                    *)
(*                                                                         *)
(* Numbers the source keeps as floats are kept exact here: a type          *)
(* multiplier is counted in quarters (4 = 1.0), a STAB factor in halves,   *)
(* and every int()/floor() of the source is an integer division of the     *)
(* exact numerator by the exact denominator.                               *)
(***************************************************************************)
EXTENDS Integers, Sequences, FiniteSets, TLC

\* ------------------------------------------------------------------ bounds

\* Largest player party the initial states draw.
MaxParty == 2

\* The victory award repeats while confirm input keeps coming; the model
\* follows it until this much experience has been added in one battle.
MaxAwardedExp == 80

\* Engine-level escape attempts followed by the model.
MaxEscapes == 3

\* --------------------------------------------------------------- helpers

Max(a, b) == IF a >= b THEN a ELSE b

Min(a, b) == IF a <= b THEN a ELSE b

\* math.floor(math.sqrt(ev)) for the effort values 0..65535
ISqrt(n) == CHOOSE r \in 0..256 : r * r <= n /\ (r + 1) * (r + 1) > n

\* int(x) of Python for the exact fraction num/den (den > 0): truncation
\* toward zero
Trunc(num, den) == IF num >= 0 THEN num \div den ELSE -((-num) \div den)

\* ------------------------------------------------------------ type chart

ALL_TYPES ==
    <<"normal", "fire", "water", "electric", "grass", "ice", "fighting",
      "poison", "ground", "flying", "psychic", "bug", "rock", "ghost",
      "dragon">>

\* TYPE_CHART[attack][defend] in halves: 0 = 0.0, 1 = 0.5, 4 = 2.0
TYPE_CHART ==
    [normal   |-> [rock |-> 1, ghost |-> 0],
     fire     |-> [fire |-> 1, water |-> 1, grass |-> 4, ice |-> 4, bug |-> 4,
                   rock |-> 1, dragon |-> 1],
     water    |-> [fire |-> 4, water |-> 1, grass |-> 1, ground |-> 4,
                   rock |-> 4, dragon |-> 1],
     electric |-> [water |-> 4, electric |-> 1, grass |-> 1, ground |-> 0,
                   flying |-> 4, dragon |-> 1],
     grass    |-> [fire |-> 1, water |-> 4, grass |-> 1, poison |-> 1,
                   ground |-> 4, flying |-> 1, bug |-> 1, rock |-> 4,
                   dragon |-> 1],
     ice      |-> [fire |-> 1, water |-> 1, grass |-> 4, ice |-> 1,
                   ground |-> 4, flying |-> 4, dragon |-> 4],
     fighting |-> [normal |-> 4, ice |-> 4, poison |-> 1, flying |-> 1,
                   psychic |-> 1, bug |-> 1, rock |-> 4, ghost |-> 0],
     poison   |-> [grass |-> 4, poison |-> 1, ground |-> 1, bug |-> 4,
                   rock |-> 1, ghost |-> 1],
     ground   |-> [fire |-> 4, electric |-> 4, grass |-> 1, poison |-> 4,
                   flying |-> 0, bug |-> 1, rock |-> 4],
     flying   |-> [electric |-> 1, grass |-> 4, fighting |-> 4, bug |-> 4,
                   rock |-> 1],
     psychic  |-> [fighting |-> 4, poison |-> 4, psychic |-> 1],
     bug      |-> [fire |-> 1, grass |-> 4, fighting |-> 1, poison |-> 4,
                   flying |-> 1, psychic |-> 4, ghost |-> 1],
     rock     |-> [fire |-> 4, ice |-> 4, fighting |-> 1, ground |-> 1,
                   flying |-> 4, bug |-> 4],
     ghost    |-> [normal |-> 0, ghost |-> 4, psychic |-> 0],
     dragon   |-> [dragon |-> 4]]

\* get_type_effectiveness over a chart whose 0.0 entries read 0.5
GetTypeEffectivenessNoImmunity(attack_type, defend_type) ==
    IF attack_type \in DOMAIN TYPE_CHART
    THEN IF defend_type \in DOMAIN TYPE_CHART[attack_type]
         THEN Max(1, TYPE_CHART[attack_type][defend_type])
         ELSE 2
    ELSE 2

\* get_type_effectiveness, in halves (2 = the default 1.0)
GetTypeEffectiveness(attack_type, defend_type) ==
    IF attack_type \in DOMAIN TYPE_CHART
    THEN IF defend_type \in DOMAIN TYPE_CHART[attack_type]
         THEN TYPE_CHART[attack_type][defend_type]
         ELSE 2
    ELSE 2

\* The running product of the loop over the defender's types, in quarters
\* (4 = 1.0): a Pokemon has one or two types.
RECURSIVE EffectivenessProduct(_, _)
EffectivenessProduct(attack_type, defend_types) ==
    IF defend_types = <<>>
    THEN 1
    ELSE GetTypeEffectiveness(attack_type, Head(defend_types))
         * EffectivenessProduct(attack_type, Tail(defend_types))

\* get_all_effectiveness with the loop stopped after the first type
GetFirstEffectiveness(attack_type, defend_types) ==
    IF defend_types = <<>>
    THEN 4
    ELSE 2 * GetTypeEffectiveness(attack_type, Head(defend_types))

\* get_all_effectiveness / the loop of calculate_damage, in quarters
GetAllEffectiveness(attack_type, defend_types) ==
    CASE Len(defend_types) = 0 -> 4
      [] Len(defend_types) = 1 -> 2 * EffectivenessProduct(attack_type, defend_types)
      [] OTHER -> EffectivenessProduct(attack_type, defend_types)

\* ----------------------------------------------------------------- stats

\* calculate_stat with the level taken modulo 100
CalculateStatWrapping(base, iv, ev, level) ==
    Max(1, (((base + iv) * 2 + ISqrt(ev) \div 4) * (level % 100)) \div 100 + 5)

\* calculate_stat
CalculateStat(base, iv, ev, level) ==
    Max(1, (((base + iv) * 2 + ISqrt(ev) \div 4) * level) \div 100 + 5)

\* calculate_hp
CalculateHp(base, iv, ev, level) ==
    Max(1, (((base + iv) * 2 + ISqrt(ev) \div 4) * level) \div 100 + level + 10)

\* calculate_exp_yield: int((a * base_exp * level) / 7 [* 1.5]), a = 1 or 1.5
CalculateExpYield(base_exp, level, wild, traded) ==
    LET num == (IF wild THEN 2 ELSE 3) * base_exp * level
    IN  IF traded THEN Trunc(3 * num, 28) ELSE Trunc(num, 14)

BASE_EXP_YIELDS == [PIKACHU |-> 82, RATTATA |-> 57, GEODUDE |-> 73]

\* get_exp_yield
GetExpYield(species) ==
    IF species \in DOMAIN BASE_EXP_YIELDS THEN BASE_EXP_YIELDS[species] ELSE 50

\* --------------------------------------------------------------- Pokemon

\* Pokemon.BASE_STATS, the species the battles of this model use
BASE_STATS ==
    [PIKACHU |-> [hp |-> 35, attack |-> 55, defense |-> 30, speed |-> 90,
                  special |-> 50, types |-> <<"electric">>],
     RATTATA |-> [hp |-> 30, attack |-> 56, defense |-> 35, speed |-> 72,
                  special |-> 25, types |-> <<"normal">>],
     GEODUDE |-> [hp |-> 40, attack |-> 80, defense |-> 100, speed |-> 20,
                  special |-> 30, types |-> <<"rock", "ground">>]]

\* The fallback block of Pokemon.__init__ for a species missing from the table
DefaultBase ==
    [hp |-> 50, attack |-> 50, defense |-> 50, speed |-> 50, special |-> 50,
     types |-> <<"normal">>]

\* One move slot as _learn_default_moves builds it (accuracy defaults to 100)
Move(name, power, type, pp) ==
    [name |-> name, power |-> power, type |-> type, pp |-> pp,
     current_pp |-> pp, accuracy |-> 100]

\* Pokemon.DEFAULT_MOVES, same species
DEFAULT_MOVES ==
    [PIKACHU |-> <<Move("THUNDER SHOCK", 40, "electric", 30),
                   Move("GROWL", 0, "normal", 40)>>,
     RATTATA |-> <<Move("TACKLE", 40, "normal", 35),
                   Move("TAIL WHIP", 0, "normal", 30)>>,
     GEODUDE |-> <<Move("TACKLE", 40, "normal", 35),
                   Move("DEFENSE CURL", 0, "normal", 40)>>]

\* _learn_default_moves: at most the first four default moves
LearnDefaultMoves(species) ==
    LET default == IF species \in DOMAIN DEFAULT_MOVES
                   THEN DEFAULT_MOVES[species]
                   ELSE <<Move("TACKLE", 40, "normal", 35)>>
    IN  SubSeq(default, 1, Min(4, Len(default)))

\* The HP IV derived from the low bits of the four drawn IVs
HpIv(ivs) ==
    (ivs.attack % 2) * 8 + (ivs.defense % 2) * 4 + (ivs.speed % 2) * 2
    + (ivs.special % 2)

\* Pokemon._calculate_stats
CalculateStats(base_stats, ivs, evs, level) ==
    [hp      |-> CalculateHp(base_stats.hp, ivs.hp, evs.hp, level),
     attack  |-> CalculateStat(base_stats.attack, ivs.attack, evs.attack, level),
     defense |-> CalculateStat(base_stats.defense, ivs.defense, evs.defense, level),
     speed   |-> CalculateStat(base_stats.speed, ivs.speed, evs.speed, level),
     special |-> CalculateStat(base_stats.special, ivs.special, evs.special, level)]

\* Pokemon._exp_for_level: int(1.2*n^3 - 15*n^2 + 100*n - 140)
ExpForLevel(n) == Trunc(6 * n * n * n - 75 * n * n + 500 * n - 700, 5)

ZeroEvs == [hp |-> 0, attack |-> 0, defense |-> 0, speed |-> 0, special |-> 0]

\* Pokemon.__init__ / Pokemon.create; drawn is the four random IVs
NewPokemon(species, lvl, drawn) ==
    LET level == Max(1, Min(100, lvl))
        base  == IF species \in DOMAIN BASE_STATS THEN BASE_STATS[species]
                 ELSE DefaultBase
        ivs   == [attack |-> drawn.attack, defense |-> drawn.defense,
                  speed |-> drawn.speed, special |-> drawn.special,
                  hp |-> HpIv(drawn)]
        bs    == [hp |-> base.hp, attack |-> base.attack,
                  defense |-> base.defense, speed |-> base.speed,
                  special |-> base.special]
        stats == CalculateStats(bs, ivs, ZeroEvs, level)
    IN  [species |-> species, level |-> level, types |-> base.types,
         ivs |-> ivs, evs |-> ZeroEvs, base_stats |-> bs, stats |-> stats,
         max_hp |-> stats.hp, current_hp |-> stats.hp,
         exp |-> ExpForLevel(level), moves |-> LearnDefaultMoves(species)]

\* Pokemon.to_dict: the persisted record (no stat block)
ToDict(p) ==
    [species |-> p.species, level |-> p.level, current_hp |-> p.current_hp,
     exp |-> p.exp, ivs |-> p.ivs, evs |-> p.evs, moves |-> p.moves]

\* Pokemon.from_dict; drawn is the four IVs the constructor draws before the
\* record's own are loaded
FromDict(data, drawn) ==
    LET fresh == NewPokemon(data.species, data.level, drawn)
        stats == CalculateStats(fresh.base_stats, data.ivs, data.evs, fresh.level)
    IN  [fresh EXCEPT !.current_hp = data.current_hp, !.exp = data.exp,
                      !.ivs = data.ivs, !.evs = data.evs,
                      !.moves = data.moves, !.stats = stats,
                      !.max_hp = stats.hp]

\* _level_up with the recalculation of the stat block left out
LevelUpStaleStats(p) == [p EXCEPT !.level = p.level + 1]

\* Pokemon._level_up
LevelUp(p) ==
    LET stats == CalculateStats(p.base_stats, p.ivs, p.evs, p.level + 1)
        hp_gain == stats.hp - p.max_hp
    IN  [p EXCEPT !.level = p.level + 1, !.stats = stats, !.max_hp = stats.hp,
                  !.current_hp = Min(stats.hp, p.current_hp + hp_gain)]

\* The while loop of Pokemon.gain_exp
RECURSIVE LevelUpWhile(_)
LevelUpWhile(p) ==
    IF p.level < 100 /\ p.exp >= ExpForLevel(p.level + 1)
    THEN LevelUpWhile(LevelUp(p))
    ELSE p

\* Pokemon.gain_exp: the Pokemon afterwards (the call returns whether its
\* level rose)
GainExp(p, amount) ==
    IF p.level >= 100 THEN p
    ELSE LevelUpWhile([p EXCEPT !.exp = p.exp + amount])

\* Pokemon.take_damage
TakeDamage(p, damage) == [p EXCEPT !.current_hp = Max(0, p.current_hp - damage)]

\* Pokemon.full_heal (HP and PP)
FullHeal(p) ==
    [p EXCEPT !.current_hp = p.max_hp,
              !.moves = [i \in DOMAIN p.moves |->
                            [p.moves[i] EXCEPT !.current_pp = p.moves[i].pp]]]

\* Python's list index of Pokemon.use_move: the 1-based slot that
\* self.moves[move_index] reads, 0 where it raises IndexError. A negative
\* index counts from the end of the list.
PySlot(moves, move_index) ==
    IF move_index >= 0
    THEN IF move_index < Len(moves) THEN move_index + 1 ELSE 0
    ELSE IF move_index >= -Len(moves) THEN Len(moves) + move_index + 1 ELSE 0

\* Pokemon.use_move: [result, pokemon]; result is "None", "move" (the slot's
\* move is returned) or "IndexError" (the call raises)
UseMove(p, move_index) ==
    IF move_index >= Len(p.moves)
    THEN [result |-> "None", pokemon |-> p]
    ELSE LET slot == PySlot(p.moves, move_index)
         IN  IF slot = 0
             THEN [result |-> "IndexError", pokemon |-> p]
             ELSE IF p.moves[slot].current_pp <= 0
                  THEN [result |-> "None", pokemon |-> p]
                  ELSE [result |-> "move",
                        pokemon |-> [p EXCEPT !.moves[slot].current_pp = @ - 1]]

\* ----------------------------------------------------------- damage_calc

\* special_types of calculate_damage
SpecialTypes ==
    {"fire", "water", "electric", "grass", "ice", "psychic", "dragon"}

\* The outcomes random.random() < base_speed / 512 can have
CritOutcomes(attacker) ==
    {c \in BOOLEAN : IF c THEN attacker.base_stats.speed > 0
                          ELSE attacker.base_stats.speed < 512}

\* The draws of random.randint(217, 255)
RandomFactors == 217..255

\* floor(q * roll / (m1 * m2)) for q >= 0, taken in steps so that no
\* intermediate product leaves 32 bits:
\* floor(x / (m1 * m2)) = floor(floor(x / m1) / m2)
FloorMulDiv(q, roll, m1, m2) ==
    LET m    == m1 * m2
        rest == q % m
    IN  (q \div m) * roll
        + ((rest \div m1) * roll + ((rest % m1) * roll) \div m1) \div m2

\* calculate_damage without its minimum of 1 damage
CalculateDamageUnfloored(attacker, defender, move, critical, roll) ==
    IF move.power = 0
    THEN [damage |-> 0, effectiveness |-> 4, raised |-> ""]
    ELSE LET special == move.type \in SpecialTypes
             attack  == IF special THEN attacker.stats.special
                        ELSE attacker.stats.attack
             defense == IF special THEN defender.stats.special
                        ELSE defender.stats.defense
             base    == (2 * attacker.level + 10) * move.power * attack
                        + 500 * defense
             stab    == IF \E i \in DOMAIN attacker.types :
                               attacker.types[i] = move.type
                        THEN 3 ELSE 2
             eff     == GetAllEffectiveness(move.type, defender.types)
             q       == base * (IF critical THEN 2 ELSE 1) * stab * eff
             whole   == FloorMulDiv(q, roll, 250 * 2 * 4, 255 * defense)
         IN  IF defense = 0
             THEN [damage |-> 0, effectiveness |-> 4,
                   raised |-> "ZeroDivisionError"]
             ELSE [damage |-> IF eff > 0 THEN whole ELSE 0,
                   effectiveness |-> eff, raised |-> ""]

\* calculate_damage for one critical-hit outcome and one random-factor roll:
\* [damage, effectiveness] with effectiveness in quarters. The float value
\*   (((2*level/5 + 2) * power * attack / defense) / 50 + 2)
\*       * critical * stab * effectiveness * roll / 255
\* is the fraction q * roll / (2000 * 255 * defense) below. attack / defense
\* is a plain division: a defense of 0 raises ZeroDivisionError and nothing
\* is returned.
CalculateDamage(attacker, defender, move, critical, roll) ==
    IF move.power = 0
    THEN [damage |-> 0, effectiveness |-> 4, raised |-> ""]
    ELSE LET special == move.type \in SpecialTypes
             attack  == IF special THEN attacker.stats.special
                        ELSE attacker.stats.attack
             defense == IF special THEN defender.stats.special
                        ELSE defender.stats.defense
             base    == (2 * attacker.level + 10) * move.power * attack
                        + 500 * defense
             stab    == IF \E i \in DOMAIN attacker.types :
                               attacker.types[i] = move.type
                        THEN 3 ELSE 2
             eff     == GetAllEffectiveness(move.type, defender.types)
             q       == base * (IF critical THEN 2 ELSE 1) * stab * eff
             whole   == FloorMulDiv(q, roll, 250 * 2 * 4, 255 * defense)
         IN  IF defense = 0
             THEN [damage |-> 0, effectiveness |-> 4,
                   raised |-> "ZeroDivisionError"]
             ELSE [damage |-> IF eff > 0 THEN Max(1, whole) ELSE 0,
                   effectiveness |-> eff, raised |-> ""]

\* Every result calculate_damage can return for this attacker, defender, move
DamageOutcomes(attacker, defender, move) ==
    {CalculateDamage(attacker, defender, move, c, r) :
        c \in CritOutcomes(attacker), r \in RandomFactors}

\* ------------------------------------------------------------- battle_ai

\* The placeholder move choose_move returns when no move has PP left; the
\* dict has no current_pp and no accuracy key, read as 0 and 100 by .get
Struggle ==
    [name |-> "STRUGGLE", power |-> 50, type |-> "normal", pp |-> 1,
     current_pp |-> 0, accuracy |-> 100]

\* available_moves without the PP filter
EveryMove(attacker) == attacker.moves

\* available_moves of choose_move
AvailableMoves(attacker) ==
    SelectSeq(attacker.moves, LAMBDA m : m.current_pp > 0)

\* BattleAI._score_move, times 800 (quarters * halves * percent)
ScoreMove(move, attacker, defender) ==
    IF move.power = 0
    THEN 10 * 800
    ELSE move.power
         * GetAllEffectiveness(move.type, defender.types)
         * (IF \E i \in DOMAIN attacker.types : attacker.types[i] = move.type
            THEN 3 ELSE 2)
         * move.accuracy

\* The loop of _choose_smart with >= in place of >: the latest best move wins
RECURSIVE SmartLoopLastWins(_, _, _, _, _, _)
SmartLoopLastWins(moves, attacker, defender, i, best, best_score) ==
    IF i > Len(moves)
    THEN best
    ELSE LET score == ScoreMove(moves[i], attacker, defender)
         IN  IF score >= best_score
             THEN SmartLoopLastWins(moves, attacker, defender, i + 1, i, score)
             ELSE SmartLoopLastWins(moves, attacker, defender, i + 1, best,
                                    best_score)

\* The loop of BattleAI._choose_smart from slot i on: the index of the best
\* move so far and its score
RECURSIVE SmartLoop(_, _, _, _, _, _)
SmartLoop(moves, attacker, defender, i, best, best_score) ==
    IF i > Len(moves)
    THEN best
    ELSE LET score == ScoreMove(moves[i], attacker, defender)
         IN  IF score > best_score
             THEN SmartLoop(moves, attacker, defender, i + 1, i, score)
             ELSE SmartLoop(moves, attacker, defender, i + 1, best, best_score)

\* BattleAI._choose_smart: best_move = moves[0], best_score = 0
ChooseSmart(moves, attacker, defender) ==
    moves[SmartLoop(moves, attacker, defender, 1, 1, 0)]

\* BattleAI._choose_random: every move random.choice can return
ChooseRandom(moves) == {moves[i] : i \in DOMAIN moves}

\* BattleAI.choose_move: every move it can return for the difficulty
ChooseMove(difficulty, attacker, defender) ==
    LET available == AvailableMoves(attacker)
    IN  IF available = <<>>
        THEN {Struggle}
        ELSE CASE difficulty = "easy" -> ChooseRandom(available)
               [] difficulty = "hard" ->
                      {ChooseSmart(available, attacker, defender)}
               [] OTHER ->
                      {ChooseSmart(available, attacker, defender)}
                      \cup ChooseRandom(available)

\* ------------------------------------------------------------------ state

\* The sum of a sequence of numbers (the score += ... of the two loops)
RECURSIVE SumSeq(_)
SumSeq(seq) == IF seq = <<>> THEN 0 ELSE Head(seq) + SumSeq(Tail(seq))

\* BattleAI._matchup_score as the exact fraction num / den: 50 * effectiveness
\* for each damaging move that is super effective, less 30 * effectiveness
\* for each opponent type that is super effective, times
\* current_hp / max(1, max_hp)
MatchupScore(pokemon, opponent) ==
    LET gain(move) ==
            IF move.power > 0
               /\ GetAllEffectiveness(move.type, opponent.types) > 4
            THEN 50 * GetAllEffectiveness(move.type, opponent.types)
            ELSE 0
        loss(opp_type) ==
            IF GetAllEffectiveness(opp_type, pokemon.types) > 4
            THEN 30 * GetAllEffectiveness(opp_type, pokemon.types)
            ELSE 0
    IN  [num |-> (SumSeq([i \in DOMAIN pokemon.moves |->
                             gain(pokemon.moves[i])])
                  - SumSeq([i \in DOMAIN opponent.types |->
                               loss(opponent.types[i])]))
                 * pokemon.current_hp,
         den |-> 4 * Max(1, pokemon.max_hp)]

\* score > best, the margin of 50 left out
BeatsAtAll(score, best) == score.num * best.den > best.num * score.den

\* score > best + 50 for two such fractions
BeatsByMargin(score, best) ==
    score.num * best.den > best.num * score.den + 50 * score.den * best.den

\* The result of should_switch when it stays: None
NoSwitch == [switch |-> FALSE, index |-> 0]

\* The loop of should_switch from team slot i on; current is the slot of the
\* Pokemon passed as current (Pokemon compare by identity)
RECURSIVE SwitchLoop(_, _, _, _, _, _)
SwitchLoop(team, current, opponent, i, best_switch, best_switch_score) ==
    IF i > Len(team)
    THEN best_switch
    ELSE IF i = current \/ team[i].current_hp <= 0
         THEN SwitchLoop(team, current, opponent, i + 1, best_switch,
                         best_switch_score)
         ELSE LET score == MatchupScore(team[i], opponent)
              IN  IF BeatsByMargin(score, best_switch_score)
                  THEN SwitchLoop(team, current, opponent, i + 1,
                                  [switch |-> TRUE, index |-> i - 1], score)
                  ELSE SwitchLoop(team, current, opponent, i + 1, best_switch,
                                  best_switch_score)

\* BattleAI.should_switch for current = team[current]
ShouldSwitch(difficulty, current, team, opponent) ==
    IF difficulty = "easy"
    THEN NoSwitch
    ELSE SwitchLoop(team, current, opponent, 1, NoSwitch,
                    MatchupScore(team[current], opponent))

VARIABLES
    phase,            \* BattleState.phase
    is_wild,          \* BattleState.is_wild = BattleManager.is_wild
    can_run,          \* BattleState.can_run
    message_queue,    \* BattleState.message_queue
    current_message,  \* BattleState.current_message, the line in the text box
    text_complete,    \* TextBox.is_complete(): the typewriter reached the end
    menu_mode,        \* BattleMenu.mode
    menu_cursor,      \* BattleMenu.cursor
    popped,           \* state_manager.pop() was called: the battle has ended
    player_party,     \* BattleManager.player_party
    enemy_party,      \* BattleManager.enemy_party
    player_index,     \* BattleManager.player_index (0-based, as in the source)
    enemy_index,      \* BattleManager.enemy_index
    escape_attempts,  \* BattleManager.escape_attempts
    turn_count,       \* BattleManager.turn_count
    exp_awarded,      \* observer: experience added by gain_exp in this battle
    last_call,        \* observer: the engine or Pokemon method called last
    last_result,      \* observer: what that call returned
    rng_draws         \* observer: random numbers that call drew

ui_vars ==
    <<phase, message_queue, current_message, text_complete, menu_mode,
      menu_cursor, popped>>

engine_vars ==
    <<is_wild, can_run, player_party, enemy_party, player_index, enemy_index,
      escape_attempts, turn_count>>

observer_vars == <<exp_awarded, last_call, last_result, rng_draws>>

vars == <<ui_vars, engine_vars, observer_vars>>

\* The phases of BattleState
PHASE_INTRO == "intro"
PHASE_ACTION_SELECT == "action_select"
PHASE_MOVE_SELECT == "move_select"
PHASE_POKEMON_SELECT == "pokemon_select"
PHASE_ITEM_SELECT == "item_select"
PHASE_EXECUTING == "executing"
PHASE_MESSAGE == "message"
PHASE_VICTORY == "victory"
PHASE_DEFEAT == "defeat"

\* BattleMenu.main_options, the 2x2 grid
MainOptions == <<"FIGHT", "BAG", "POKEMON", "RUN">>

\* One line of the message queue: which text, about which side, with which
\* move name and which number in it
Msg(text, who, move, num) ==
    [text |-> text, who |-> who, move |-> move, num |-> num]

NoMessage == Msg("", "", "", 0)

\* BattleManager.player_pokemon / enemy_pokemon: is there an active Pokemon
HasActive(party, index) == 0 <= index /\ index < Len(party)

\* ... and which one it is
Active(party, index) == party[index + 1]

\* BattleManager.is_player_defeated / is_enemy_defeated
IsDefeated(party) == \A i \in DOMAIN party : party[i].current_hp <= 0

\* BattleManager._get_first_able_index
GetFirstAbleIndex(party) ==
    IF \E i \in DOMAIN party : party[i].current_hp > 0
    THEN (CHOOSE i \in DOMAIN party :
              /\ party[i].current_hp > 0
              /\ \A j \in 1..(i - 1) : party[j].current_hp <= 0) - 1
    ELSE 0

\* BattleManager.calculate_exp_gain
CalculateExpGain(eparty, eindex, wild) ==
    IF ~HasActive(eparty, eindex)
    THEN 0
    ELSE CalculateExpYield(GetExpYield(Active(eparty, eindex).species),
                           Active(eparty, eindex).level, wild, FALSE)

\* The part of the state the handlers of BattleState change, as one record
Snapshot ==
    [phase |-> phase, message_queue |-> message_queue,
     current_message |-> current_message, text_complete |-> text_complete,
     menu_mode |-> menu_mode, menu_cursor |-> menu_cursor,
     player_party |-> player_party, enemy_party |-> enemy_party,
     exp_awarded |-> exp_awarded]

\* BattleMenu.show_main_menu
ShowMainMenu(s) == [s EXCEPT !.menu_mode = "main", !.menu_cursor = 0]

\* message_queue.append
Enqueue(s, m) == [s EXCEPT !.message_queue = Append(@, m)]

RECURSIVE NextMessage(_)

\* BattleState._handle_victory
HandleVictory(s) ==
    IF ~HasActive(s.enemy_party, enemy_index)
    THEN NextMessage(s)
    ELSE LET exp == CalculateExpGain(s.enemy_party, enemy_index, is_wild)
             s1  == Enqueue(s, Msg("Defeated", "enemy", "", 0))
         IN  IF exp <= 0
             THEN NextMessage(s1)
             ELSE LET s2 == Enqueue(s1, Msg("Gained EXP", "player", "", exp))
                  IN  IF ~HasActive(s.player_party, player_index)
                      THEN NextMessage(s2)
                      ELSE LET before == Active(s.player_party, player_index)
                               after  == GainExp(before, exp)
                               s3 == [s2 EXCEPT
                                        !.player_party[player_index + 1] = after,
                                        !.exp_awarded = @ + after.exp - before.exp]
                           IN  IF after.level > before.level
                               THEN NextMessage(Enqueue(s3,
                                        Msg("grew to level", "player", "",
                                            after.level)))
                               ELSE NextMessage(s3)

\* BattleState._advance_phase
AdvancePhase(s) ==
    IF s.phase = PHASE_INTRO \/ s.phase = PHASE_MESSAGE
    THEN IF IsDefeated(s.player_party)
         THEN NextMessage(Enqueue([s EXCEPT !.phase = PHASE_DEFEAT],
                                  Msg("You have no more Pokemon!", "player", "", 0)))
         ELSE IF IsDefeated(s.enemy_party)
              THEN HandleVictory([s EXCEPT !.phase = PHASE_VICTORY])
              ELSE ShowMainMenu([s EXCEPT !.phase = PHASE_ACTION_SELECT])
    ELSE s

\* _next_message taking the newest line of the queue instead of the oldest
NextMessageNewest(s) ==
    IF s.message_queue # <<>>
    THEN [s EXCEPT !.current_message = s.message_queue[Len(s.message_queue)],
                   !.message_queue = SubSeq(s.message_queue, 1,
                                            Len(s.message_queue) - 1),
                   !.text_complete = FALSE,
                   !.phase = PHASE_MESSAGE]
    ELSE AdvancePhase(s)

\* BattleState._next_message; TextBox.set_text restarts the typewriter
NextMessage(s) ==
    IF s.message_queue # <<>>
    THEN [s EXCEPT !.current_message = Head(s.message_queue),
                   !.message_queue = Tail(s.message_queue),
                   !.text_complete = FALSE,
                   !.phase = PHASE_MESSAGE]
    ELSE AdvancePhase(s)

\* BattleState._execute_move for one result of calculate_damage
ExecuteMove(s, is_player, move, outcome) ==
    LET aparty == IF is_player THEN s.player_party ELSE s.enemy_party
        aindex == IF is_player THEN player_index ELSE enemy_index
        dparty == IF is_player THEN s.enemy_party ELSE s.player_party
        dindex == IF is_player THEN enemy_index ELSE player_index
        who    == IF is_player THEN "player" ELSE "enemy"
        whom   == IF is_player THEN "enemy" ELSE "player"
        s1     == Enqueue(s, Msg("used", who, move.name, 0))
        new_hp == Max(0, Active(dparty, dindex).current_hp - outcome.damage)
        s2     == IF is_player
                  THEN [s1 EXCEPT !.enemy_party[dindex + 1].current_hp = new_hp]
                  ELSE [s1 EXCEPT !.player_party[dindex + 1].current_hp = new_hp]
        s3     == IF outcome.effectiveness > 4
                  THEN Enqueue(s2, Msg("It's super effective!", whom, "", 0))
                  ELSE IF outcome.effectiveness < 4 /\ outcome.effectiveness > 0
                       THEN Enqueue(s2, Msg("It's not very effective...", whom, "", 0))
                       ELSE IF outcome.effectiveness = 0
                            THEN Enqueue(s2, Msg("It doesn't affect the foe...",
                                                 whom, "", 0))
                            ELSE s2
    IN  IF outcome.damage > 0
        THEN IF new_hp <= 0
             THEN Enqueue(s3, Msg("fainted", whom, "", 0))
             ELSE s3
        ELSE s1

\* The handler's result becomes the next state
Becomes(s) ==
    /\ phase' = s.phase
    /\ message_queue' = s.message_queue
    /\ current_message' = s.current_message
    /\ text_complete' = s.text_complete
    /\ menu_mode' = s.menu_mode
    /\ menu_cursor' = s.menu_cursor
    /\ player_party' = s.player_party
    /\ enemy_party' = s.enemy_party
    /\ exp_awarded' = s.exp_awarded
    /\ UNCHANGED <<popped, is_wild, can_run, player_index, enemy_index,
                   escape_attempts, turn_count, last_call, last_result,
                   rng_draws>>

\* --------------------------------------------------- construction (enter)

\* The IV draws of random.randint(0, 15) the model follows: all four 0
IvDraws ==
    {[attack |-> v, defense |-> v, speed |-> v, special |-> v] : v \in {0}}

\* Species, levels and saved HP of the party members handed to the battle
PlayerSpecies == {"PIKACHU"}

PlayerLevels == {5}

SavedHp == {0, 2, 1000}

\* Species and levels (level_min..level_max) of the wild Pokemon descriptor
EnemySpecies == {"RATTATA", "GEODUDE"}

EnemyLevels == {3}

\* A party member as the save file holds it: created, then hurt down to hp
\* (no more than its max HP), its first move used up or not
SavedRecord(species, level, drawn, hp, used_up) ==
    LET fresh == NewPokemon(species, level, drawn)
    IN  [ToDict(fresh) EXCEPT
            !.current_hp = Min(hp, fresh.max_hp),
            !.moves[1].current_pp = IF used_up THEN 0 ELSE @]

\* The party lists game.player_data["party"] can hold, the empty one included
PartyInputs(levels, hps) ==
    LET members == {SavedRecord(sp, l, d, h, u) :
                        sp \in PlayerSpecies, l \in levels, d \in IvDraws,
                        h \in hps, u \in BOOLEAN}
    IN  UNION {[1..n -> members] : n \in 0..MaxParty}

\* BattleManager.__init__ without the starter it creates for an empty party
BattleManagerInitNoStarter(party_input, species, level, drawn) ==
    LET pparty == [i \in DOMAIN party_input |-> FromDict(party_input[i], drawn)]
        eparty == <<NewPokemon(species, level, drawn)>>
    IN  [player_party |-> pparty, enemy_party |-> eparty,
         player_index |-> GetFirstAbleIndex(pparty),
         enemy_index |-> GetFirstAbleIndex(eparty)]

\* BattleManager.__init__ for a wild Pokemon descriptor: the rosters and the
\* active indices
BattleManagerInit(party_input, species, level, drawn) ==
    LET loaded == [i \in DOMAIN party_input |-> FromDict(party_input[i], drawn)]
        pparty == IF loaded = <<>>
                  THEN <<NewPokemon("PIKACHU", 5, drawn)>>
                  ELSE loaded
        eparty == <<NewPokemon(species, level, drawn)>>
    IN  [player_party |-> pparty, enemy_party |-> eparty,
         player_index |-> GetFirstAbleIndex(pparty),
         enemy_index |-> GetFirstAbleIndex(eparty)]

\* The scripted opening lines of BattleState.enter
IntroMessages(wild) ==
    IF wild
    THEN <<Msg("Wild appeared!", "enemy", "", 0), Msg("Go!", "player", "", 0)>>
    ELSE <<Msg("wants to battle!", "enemy", "", 0),
           Msg("sent out", "enemy", "", 0), Msg("Go!", "player", "", 0)>>

\* The observers before any engine or Pokemon method was called
NoCall == [op |-> "", ball |-> "", index |-> 0]

NoResult == [value |-> "", message |-> ""]

\* BattleState.enter: the battle manager is built, the opening lines are
\* queued, the phase is set to Intro and _next_message shows the first line
EnterAgainst(levels, hps, enemy_levels) ==
    \E wild \in BOOLEAN, party_input \in PartyInputs(levels, hps),
       species \in EnemySpecies, level \in enemy_levels, drawn \in IvDraws :
      \E bm \in {BattleManagerInit(party_input, species, level, drawn)} :
        \E s \in {NextMessage(
                    [phase |-> PHASE_INTRO,
                     message_queue |-> IntroMessages(wild),
                     current_message |-> NoMessage, text_complete |-> TRUE,
                     menu_mode |-> "main", menu_cursor |-> 0,
                     player_party |-> bm.player_party,
                     enemy_party |-> bm.enemy_party, exp_awarded |-> 0])} :
            /\ is_wild = wild
            /\ can_run = wild
            /\ player_party = s.player_party
            /\ enemy_party = s.enemy_party
            /\ player_index = bm.player_index
            /\ enemy_index = bm.enemy_index
            /\ escape_attempts = 0
            /\ turn_count = 0
            /\ phase = s.phase
            /\ message_queue = s.message_queue
            /\ current_message = s.current_message
            /\ text_complete = s.text_complete
            /\ menu_mode = s.menu_mode
            /\ menu_cursor = s.menu_cursor
            /\ popped = FALSE
            /\ exp_awarded = 0
            /\ last_call = NoCall
            /\ last_result = NoResult
            /\ rng_draws = 0

\* ... for a descriptor whose level range is EnemyLevels
Enter(levels, hps) == EnterAgainst(levels, hps, EnemyLevels)

Init == Enter(PlayerLevels, SavedHp)

\* ------------------------------------------- BattleState.handle_event/update

Directions == {"up", "down", "left", "right"}

\* BattleMenu.move_cursor: the cursor afterwards; n is len(self.moves)
MoveCursor(mode, cursor, direction, n) ==
    CASE mode = "main" ->
            (CASE direction = "up" /\ cursor >= 2 -> cursor - 2
               [] direction = "down" /\ cursor < 2 -> cursor + 2
               [] direction = "left" /\ cursor % 2 = 1 -> cursor - 1
               [] direction = "right" /\ cursor % 2 = 0 -> cursor + 1
               [] OTHER -> cursor)
      [] mode = "moves" ->
            (CASE direction = "up" /\ cursor >= 2 -> cursor - 2
               [] direction = "down" /\ cursor + 2 <= n - 1 -> cursor + 2
               [] direction = "left" /\ cursor % 2 = 1 -> cursor - 1
               [] direction = "right" /\ cursor % 2 = 0 /\ cursor + 1 <= n - 1
                    -> cursor + 1
               [] OTHER -> cursor)
      [] OTHER -> cursor

\* len(self.battle_menu.moves): the list show_move_menu was given
MenuMovesLen ==
    IF HasActive(player_party, player_index)
    THEN Len(Active(player_party, player_index).moves)
    ELSE 0

\* TextBox.update: the typewriter reaches the end of the line
Update ==
    /\ ~popped
    /\ ~text_complete
    /\ text_complete' = TRUE
    /\ UNCHANGED <<phase, message_queue, current_message, menu_mode,
                   menu_cursor, popped, engine_vars, observer_vars>>

\* KEY_A in phase Message: skip the typewriter, or show the next line
KeyA_Message ==
    /\ ~popped
    /\ phase = PHASE_MESSAGE
    /\ IF text_complete
       THEN /\ NextMessage(Snapshot).exp_awarded <= MaxAwardedExp
            /\ Becomes(NextMessage(Snapshot))
       ELSE /\ text_complete' = TRUE
            /\ UNCHANGED <<phase, message_queue, current_message, menu_mode,
                           menu_cursor, popped, engine_vars, observer_vars>>

\* A direction key in phase ActionSelect or MoveSelect
KeyDirection(direction) ==
    /\ ~popped
    /\ phase \in {PHASE_ACTION_SELECT, PHASE_MOVE_SELECT}
    /\ menu_cursor' = MoveCursor(menu_mode, menu_cursor, direction, MenuMovesLen)
    /\ UNCHANGED <<phase, message_queue, current_message, text_complete,
                   menu_mode, popped, engine_vars, observer_vars>>

\* KEY_A in phase ActionSelect on FIGHT: show_move_menu
SelectFight ==
    /\ ~popped
    /\ phase = PHASE_ACTION_SELECT
    /\ MainOptions[menu_cursor + 1] = "FIGHT"
    /\ phase' = PHASE_MOVE_SELECT
    /\ menu_mode' = "moves"
    /\ menu_cursor' = 0
    /\ UNCHANGED <<message_queue, current_message, text_complete, popped,
                   engine_vars, observer_vars>>

\* KEY_A in phase ActionSelect on BAG
SelectBag ==
    /\ ~popped
    /\ phase = PHASE_ACTION_SELECT
    /\ MainOptions[menu_cursor + 1] = "BAG"
    /\ phase' = PHASE_ITEM_SELECT
    /\ UNCHANGED <<message_queue, current_message, text_complete, menu_mode,
                   menu_cursor, popped, engine_vars, observer_vars>>

\* KEY_A in phase ActionSelect on POKEMON
SelectPokemon ==
    /\ ~popped
    /\ phase = PHASE_ACTION_SELECT
    /\ MainOptions[menu_cursor + 1] = "POKEMON"
    /\ phase' = PHASE_POKEMON_SELECT
    /\ UNCHANGED <<message_queue, current_message, text_complete, menu_mode,
                   menu_cursor, popped, engine_vars, observer_vars>>

\* BattleState._try_run: the results it can return. The escape chance is
\* (player_speed * 32) / (enemy_speed // 4) + 30 against randint(0, 255).
\* The divisor is not floored: an enemy speed below 4 raises
\* ZeroDivisionError and nothing is returned. Pokemon built by the class
\* have a speed of 5 or more.
StateTryRun ==
    IF ~can_run
    THEN {FALSE}
    ELSE IF ~HasActive(player_party, player_index)
            \/ ~HasActive(enemy_party, enemy_index)
         THEN {TRUE}
         ELSE LET player_speed == Active(player_party, player_index).stats.speed
                  enemy_speed  == Active(enemy_party, enemy_index).stats.speed
              IN  {(draw - 30) * (enemy_speed \div 4) < player_speed * 32 :
                      draw \in IF enemy_speed \div 4 = 0 THEN {} ELSE 0..255}

\* BattleState._execute_enemy_turn
ExecuteEnemyTurn(s) ==
    IF ~HasActive(s.enemy_party, enemy_index)
       \/ ~HasActive(s.player_party, player_index)
    THEN {s}
    ELSE LET enemy  == Active(s.enemy_party, enemy_index)
             player == Active(s.player_party, player_index)
         IN  UNION {{NextMessage(ExecuteMove(s, FALSE, move, outcome)) :
                        outcome \in DamageOutcomes(enemy, player, move)} :
                    move \in ChooseMove("normal", enemy, player)}

\* KEY_A in phase ActionSelect on RUN
SelectRun ==
    /\ ~popped
    /\ phase = PHASE_ACTION_SELECT
    /\ MainOptions[menu_cursor + 1] = "RUN"
    /\ \E escaped \in StateTryRun :
          IF escaped
          THEN Becomes([NextMessage(Enqueue(Snapshot,
                            Msg("Got away safely!", "player", "", 0)))
                        EXCEPT !.phase = PHASE_VICTORY])
          ELSE \E t \in ExecuteEnemyTurn(Enqueue(Snapshot,
                            Msg("Can't escape!", "player", "", 0))) :
                  Becomes(t)

\* _execute_turn with the player's move always first
TurnResultsPlayerFirst(s, player_move, enemy_move) ==
    LET player == Active(s.player_party, player_index)
        enemy  == Active(s.enemy_party, enemy_index)
    IN  UNION {IF Active(s1.enemy_party, enemy_index).current_hp > 0
               THEN {ExecuteMove(s1, FALSE, enemy_move, o2) :
                        o2 \in DamageOutcomes(enemy, player, enemy_move)}
               ELSE {s1} :
               s1 \in {ExecuteMove(s, TRUE, player_move, o1) :
                          o1 \in DamageOutcomes(player, enemy, player_move)}}

\* The two moves of BattleState._execute_turn in speed order, for every
\* result the damage calculator can return
TurnResults(s, player_move, enemy_move) ==
    LET player == Active(s.player_party, player_index)
        enemy  == Active(s.enemy_party, enemy_index)
    IN  IF player.stats.speed >= enemy.stats.speed
        THEN UNION {IF Active(s1.enemy_party, enemy_index).current_hp > 0
                    THEN {ExecuteMove(s1, FALSE, enemy_move, o2) :
                             o2 \in DamageOutcomes(enemy, player, enemy_move)}
                    ELSE {s1} :
                    s1 \in {ExecuteMove(s, TRUE, player_move, o1) :
                               o1 \in DamageOutcomes(player, enemy, player_move)}}
        ELSE UNION {IF Active(s1.player_party, player_index).current_hp > 0
                    THEN {ExecuteMove(s1, TRUE, player_move, o2) :
                             o2 \in DamageOutcomes(player, enemy, player_move)}
                    ELSE {s1} :
                    s1 \in {ExecuteMove(s, FALSE, enemy_move, o1) :
                               o1 \in DamageOutcomes(enemy, player, enemy_move)}}

\* BattleState._execute_turn: the states it can end in
ExecuteTurn(s, player_move_index) ==
    IF ~HasActive(s.player_party, player_index)
       \/ ~HasActive(s.enemy_party, enemy_index)
    THEN {s}
    ELSE LET player == Active(s.player_party, player_index)
             enemy  == Active(s.enemy_party, enemy_index)
         IN  IF player_move_index >= Len(player.moves)
             THEN {s}
             ELSE {NextMessage(t) :
                      t \in UNION {TurnResults(s, player.moves[player_move_index + 1],
                                               enemy_move) :
                                      enemy_move \in ChooseMove("normal", enemy, player)}}

\* KEY_A in phase MoveSelect: commit the move under the cursor
KeyA_MoveSelect ==
    /\ ~popped
    /\ phase = PHASE_MOVE_SELECT
    /\ IF HasActive(player_party, player_index)
          /\ menu_cursor < Len(Active(player_party, player_index).moves)
       THEN \E t \in ExecuteTurn(Snapshot, menu_cursor) : Becomes(t)
       ELSE UNCHANGED vars

\* KEY_B in phase MoveSelect or PokemonSelect: back to the main menu
KeyB_Cancel ==
    /\ ~popped
    /\ phase \in {PHASE_MOVE_SELECT, PHASE_POKEMON_SELECT}
    /\ Becomes(ShowMainMenu([Snapshot EXCEPT !.phase = PHASE_ACTION_SELECT]))

\* KEY_A in phase Victory or Defeat: state_manager.pop()
KeyA_Terminal ==
    /\ ~popped
    /\ phase \in {PHASE_VICTORY, PHASE_DEFEAT}
    /\ popped' = TRUE
    /\ UNCHANGED <<phase, message_queue, current_message, text_complete,
                   menu_mode, menu_cursor, engine_vars, observer_vars>>

Next ==
    \/ Update
    \/ KeyA_Message
    \/ \E direction \in Directions : KeyDirection(direction)
    \/ SelectFight
    \/ SelectBag
    \/ SelectPokemon
    \/ SelectRun
    \/ KeyA_MoveSelect
    \/ KeyB_Cancel
    \/ KeyA_Terminal

Spec == Init /\ [][Next]_vars

\* The battles of players at the level cap, where gain_exp returns at once
LiveLevels == {100}

LiveHp == {0, 2}

LiveInit == Enter(LiveLevels, LiveHp)

\* pygame delivers every key press to handle_event and calls update on every
\* frame: a confirm that stays possible is eventually given, and the
\* typewriter eventually finishes the line
FairSpec ==
    /\ LiveInit
    /\ [][Next]_vars
    /\ WF_vars(Update)
    /\ WF_vars(KeyA_Message)
    /\ WF_vars(KeyA_Terminal)

\* ------------------------------------------------ BattleManager operations

\* Python's str(bool) of a returned flag
PyBool(b) == IF b THEN "True" ELSE "False"

\* ball_rates of BattleManager.try_catch
BallRates ==
    [pokeball |-> 255, greatball |-> 200, ultraball |-> 150, masterball |-> 0]

\* The ball_type arguments followed: the four known balls and an unknown one
Balls == {"pokeball", "greatball", "ultraball", "masterball", "safariball"}

\* ball_rates.get(ball_type, 255)
BallRate(ball_type) ==
    IF ball_type \in DOMAIN BallRates THEN BallRates[ball_type] ELSE 255

\* The shake loop of try_catch for hp_factor = num / den: the results and
\* the number of random.randint(0, 65535) draws. A draw d shakes when
\* d < hp_factor * 256; that is monotone in d, so the two ends of the range
\* give every outcome a draw can have.
ShakeResults(num, den) ==
    LET shake  == {d * den < num * 256 : d \in {0, 65535}}
        breaks == FALSE \in shake
        holds  == TRUE \in shake
    IN  (IF breaks
         THEN {[value |-> "False", message |-> "Oh no! The Pokemon broke free!",
                draws |-> 1]}
         ELSE {})
        \cup (IF holds /\ breaks
              THEN {[value |-> "False",
                     message |-> "Aww! It appeared to be caught!", draws |-> 2],
                    [value |-> "False", message |-> "Aargh! Almost had it!",
                     draws |-> 3]}
              ELSE {})
        \cup (IF holds
              THEN {[value |-> "False",
                     message |-> "Shoot! It was so close too!", draws |-> 3]}
              ELSE {})

\* try_catch without its Master Ball branch: the ball rate 0 goes through the
\* HP factor and the catch check like any other
TryCatchResultsByRate(ball_type) ==
    IF ~is_wild
    THEN {[value |-> "False", message |-> "You can't catch a trainer's Pokemon!",
           draws |-> 0]}
    ELSE IF ~HasActive(enemy_party, enemy_index)
    THEN {[value |-> "False", message |-> "No Pokemon to catch!", draws |-> 0]}
    ELSE LET enemy == Active(enemy_party, enemy_index)
             num   == enemy.max_hp * 255 * 4
             den   == Max(1, enemy.current_hp * BallRate(ball_type))
         IN  UNION {IF catch_check * den < num
                    THEN {[value |-> "True", message |-> "Gotcha! was caught!",
                           draws |-> 1]}
                    ELSE {[r EXCEPT !.draws = @ + 1] : r \in ShakeResults(num, den)} :
                    catch_check \in 0..255}

\* BattleManager.try_catch: every (success, message) it can return, with the
\* number of random numbers drawn
TryCatchResults(ball_type) ==
    IF ~is_wild
    THEN {[value |-> "False", message |-> "You can't catch a trainer's Pokemon!",
           draws |-> 0]}
    ELSE IF ~HasActive(enemy_party, enemy_index)
    THEN {[value |-> "False", message |-> "No Pokemon to catch!", draws |-> 0]}
    ELSE IF ball_type = "masterball"
    THEN {[value |-> "True", message |-> "was caught!", draws |-> 0]}
    ELSE LET enemy == Active(enemy_party, enemy_index)
             num   == enemy.max_hp * 255 * 4
             den   == Max(1, enemy.current_hp * BallRate(ball_type))
         IN  UNION {IF catch_check * den < num
                    THEN {[value |-> "True", message |-> "Gotcha! was caught!",
                           draws |-> 1]}
                    ELSE {[r EXCEPT !.draws = @ + 1] : r \in ShakeResults(num, den)} :
                    catch_check \in 0..255}

\* A call of BattleManager.try_catch(ball_type)
TryCatch(ball_type) ==
    /\ \E r \in TryCatchResults(ball_type) :
          /\ last_result' = [value |-> r.value, message |-> r.message]
          /\ rng_draws' = r.draws
    /\ last_call' = [op |-> "try_catch", ball |-> ball_type, index |-> 0]
    /\ UNCHANGED <<ui_vars, engine_vars, exp_awarded>>

\* try_run past its wild-battle check with the odds computed before the
\* counter is incremented
TryRunAttemptStale ==
    IF ~HasActive(player_party, player_index)
       \/ ~HasActive(enemy_party, enemy_index)
    THEN /\ last_result' = [value |-> "True", message |-> ""]
         /\ rng_draws' = 0
         /\ UNCHANGED escape_attempts
    ELSE /\ escape_attempts < MaxEscapes
         /\ escape_attempts' = escape_attempts + 1
         /\ rng_draws' = 1
         /\ \E player_speed \in {Active(player_party, player_index).stats.speed},
               quarter \in {Max(1, Active(enemy_party, enemy_index).stats.speed
                                   \div 4)} :
              \E escaped \in {draw * quarter
                               < player_speed * 32
                                 + 30 * escape_attempts * quarter :
                               draw \in 0..255} :
                 last_result' = [value |-> PyBool(escaped), message |-> ""]

\* BattleManager.try_run past its wild-battle check. The escape odds are
\* (player_speed * 32) / max(1, enemy_speed // 4) + 30 * escape_attempts
\* against random.randint(0, 255).
TryRunAttempt ==
    IF ~HasActive(player_party, player_index)
       \/ ~HasActive(enemy_party, enemy_index)
    THEN /\ last_result' = [value |-> "True", message |-> ""]
         /\ rng_draws' = 0
         /\ UNCHANGED escape_attempts
    ELSE /\ escape_attempts < MaxEscapes
         /\ escape_attempts' = escape_attempts + 1
         /\ rng_draws' = 1
         /\ \E player_speed \in {Active(player_party, player_index).stats.speed},
               quarter \in {Max(1, Active(enemy_party, enemy_index).stats.speed
                                   \div 4)} :
              \E escaped \in {draw * quarter
                               < player_speed * 32
                                 + 30 * (escape_attempts + 1) * quarter :
                               draw \in 0..255} :
                 last_result' = [value |-> PyBool(escaped), message |-> ""]

\* try_run with the wild-battle check left out
TryRunUnchecked ==
    /\ last_call' = [op |-> "try_run", ball |-> "", index |-> 0]
    /\ TryRunAttempt
    /\ UNCHANGED <<ui_vars, is_wild, can_run, player_party, enemy_party,
                   player_index, enemy_index, turn_count, exp_awarded>>

\* A call of BattleManager.try_run
TryRun ==
    /\ last_call' = [op |-> "try_run", ball |-> "", index |-> 0]
    /\ IF ~is_wild
       THEN /\ last_result' = [value |-> "False", message |-> ""]
            /\ rng_draws' = 0
            /\ UNCHANGED escape_attempts
       ELSE TryRunAttempt
    /\ UNCHANGED <<ui_vars, is_wild, can_run, player_party, enemy_party,
                   player_index, enemy_index, turn_count, exp_awarded>>

EngineNext ==
    \/ TryRun
    \/ \E ball_type \in Balls : TryCatch(ball_type)

\* The battle manager as BattleState.enter builds it, under calls of its
\* run and catch operations
EngineSpec == Init /\ [][EngineNext]_vars

\* ------------------------------------------------------ Pokemon operations

\* The move_index arguments followed: -(MaxMoveIndex + 1) .. MaxMoveIndex
MaxMoveIndex == 2

MoveIndices == (0 - MaxMoveIndex - 1)..MaxMoveIndex

\* A call of use_move(move_index) on the player's active Pokemon
PokemonUseMove(move_index) ==
    /\ HasActive(player_party, player_index)
    /\ \E r \in {UseMove(Active(player_party, player_index), move_index)} :
          /\ player_party' = [player_party EXCEPT ![player_index + 1] = r.pokemon]
          /\ last_result' = [value |-> r.result, message |-> ""]
    /\ last_call' = [op |-> "use_move", ball |-> "", index |-> move_index]
    /\ rng_draws' = 0
    /\ UNCHANGED <<ui_vars, is_wild, can_run, enemy_party, player_index,
                   enemy_index, escape_attempts, turn_count, exp_awarded>>

\* A call of full_heal() on the player's active Pokemon
PokemonFullHeal ==
    /\ HasActive(player_party, player_index)
    /\ player_party' = [player_party EXCEPT
                           ![player_index + 1] = FullHeal(@)]
    /\ last_call' = [op |-> "full_heal", ball |-> "", index |-> 0]
    /\ last_result' = [value |-> "None", message |-> ""]
    /\ rng_draws' = 0
    /\ UNCHANGED <<ui_vars, is_wild, can_run, enemy_party, player_index,
                   enemy_index, escape_attempts, turn_count, exp_awarded>>

PokemonNext ==
    \/ \E move_index \in MoveIndices : PokemonUseMove(move_index)
    \/ PokemonFullHeal

\* The player's active Pokemon under calls of use_move and full_heal
PokemonSpec == Init /\ [][PokemonNext]_vars

\* ------------------------------------------------------------------ claims

\* A confirm that finds the text complete and the message queue empty:
\* _next_message falls through to _advance_phase
Drain == KeyA_Message /\ text_complete /\ message_queue = <<>>

\* The three select phases of the battle menu
SelectPhases == {PHASE_MOVE_SELECT, PHASE_ITEM_SELECT, PHASE_POKEMON_SELECT}

\* The lines the text box and the queue hold
ShownMessages(current, queue) == {current} \cup {queue[i] : i \in DOMAIN queue}

\* C1: once every Pokemon of the player's party has 0 HP, the confirm that
\* drains the message queue leaves the battle in phase Defeat; and a battle in
\* phase Defeat keeps that phase and changes no party and no counter.
C1_DefeatIsTerminal ==
    [][/\ (Drain /\ IsDefeated(player_party)) => phase' = PHASE_DEFEAT
       /\ phase = PHASE_DEFEAT =>
             /\ phase' = PHASE_DEFEAT
             /\ UNCHANGED <<player_party, enemy_party, escape_attempts,
                            turn_count>>]_vars

\* C2: once the enemy's only Pokemon has fainted, the experience added to the
\* player's Pokemon in this battle is nothing yet or exactly one award of
\* floor(a * baseYield * level / 7), a = 1 in a wild battle and 3/2 in a
\* trainer battle, however many confirms follow.
C2_ExperienceAwardedOnce ==
    (Len(enemy_party) = 1 /\ IsDefeated(enemy_party)) =>
        LET defeated == enemy_party[1]
            yield    == BASE_EXP_YIELDS[defeated.species] * defeated.level
        IN  exp_awarded \in {0, IF is_wild THEN yield \div 7
                                ELSE (3 * yield) \div 14}

\* C3: when one side's party is all fainted and the confirms keep coming,
\* the battle state is eventually popped.
C3_BattleEnds ==
    (IsDefeated(player_party) \/ IsDefeated(enemy_party)) ~> popped

\* C4: every confirm that drains the message queue leaves the phase the
\* end-condition check decides: Defeat when the player's party is all
\* fainted, else Victory when the enemy's party is all fainted, else
\* ActionSelect.
C4_DrainDecidesPhase ==
    [][Drain =>
          phase' = IF IsDefeated(player_party) THEN PHASE_DEFEAT
                   ELSE IF IsDefeated(enemy_party) THEN PHASE_VICTORY
                   ELSE PHASE_ACTION_SELECT]_vars

\* C5: in each of the phases MoveSelect, ItemSelect and PokemonSelect some
\* input returns the phase to ActionSelect and leaves the battle unchanged.
C5_SelectPhasesCancel ==
    phase \in SelectPhases =>
        ENABLED (Next /\ phase' = PHASE_ACTION_SELECT /\ UNCHANGED engine_vars)

\* C6: a commit in phase MoveSelect on a slot with no PP left, or on an index
\* outside the move list, changes nothing: the phase stays MoveSelect and no
\* party, message or counter changes.
C6_EmptyMoveRejected ==
    [][(/\ KeyA_MoveSelect
        /\ HasActive(player_party, player_index)
        /\ LET moves == Active(player_party, player_index).moves
           IN  IF menu_cursor < Len(moves)
               THEN moves[menu_cursor + 1].current_pp = 0
               ELSE TRUE)
       => UNCHANGED <<phase, message_queue, current_message, player_party,
                      enemy_party, escape_attempts, turn_count>>]_vars

\* C7: Run selected in a trainer battle leaves the phase ActionSelect, queues
\* no enemy move and changes no party and no counter.
C7_TrainerRunRejected ==
    [][(SelectRun /\ ~is_wild) =>
          /\ phase' = PHASE_ACTION_SELECT
          /\ UNCHANGED <<player_party, enemy_party, escape_attempts,
                         turn_count>>]_vars

\* C8: in a trainer battle every call of try_run and of try_catch, whatever
\* the ball, returns failure, draws no random number and leaves the escape
\* counter, both parties and both active indices as they were.
C8_TrainerBattleRejects ==
    [][(~is_wild /\ EngineNext) =>
          /\ last_result'.value = "False"
          /\ rng_draws' = 0
          /\ UNCHANGED <<escape_attempts, player_party, enemy_party,
                         player_index, enemy_index>>]_vars

\* C8 witness: a Master Ball thrown in a trainer battle has been refused
C8_MasterBallRefused ==
    /\ ~is_wild
    /\ last_call.op = "try_catch"
    /\ last_call.ball = "masterball"
    /\ last_result.value = "False"

\* C9: use_move(i) with i outside 0..len(moves)-1, negative i included, or on
\* a slot with no PP left returns None and changes no PP; on a slot with PP
\* left it returns the move and lowers that slot's PP by one, no other; and
\* after every call 0 <= current PP <= max PP in every slot.
C9_UseMoveContract ==
    [][\A i \in MoveIndices :
          PokemonUseMove(i) =>
             LET before == Active(player_party, player_index).moves
                 after  == Active(player_party', player_index).moves
                 valid  == IF i >= 0 /\ i < Len(before)
                           THEN before[i + 1].current_pp > 0
                           ELSE FALSE
             IN  /\ IF valid
                    THEN /\ last_result'.value = "move"
                         /\ after = [before EXCEPT ![i + 1].current_pp = @ - 1]
                    ELSE /\ last_result'.value = "None"
                         /\ after = before
                 /\ \A k \in DOMAIN after :
                       after[k].current_pp >= 0 /\ after[k].current_pp <= after[k].pp
      ]_vars

\* C10: at the end of a turn, every move the turn's messages report as used,
\* by the player's Pokemon or by the enemy's, has one PP less than before.
C10_UsedMoveCostsOnePP ==
    [][KeyA_MoveSelect =>
          LET shown == ShownMessages(current_message', message_queue')
          IN  /\ \A k \in DOMAIN Active(player_party, player_index).moves :
                    LET move == Active(player_party, player_index).moves[k]
                    IN  Msg("used", "player", move.name, 0) \in shown =>
                           Active(player_party', player_index).moves[k].current_pp
                              = move.current_pp - 1
              /\ \A k \in DOMAIN Active(enemy_party, enemy_index).moves :
                    LET move == Active(enemy_party, enemy_index).moves[k]
                    IN  Msg("used", "enemy", move.name, 0) \in shown =>
                           Active(enemy_party', enemy_index).moves[k].current_pp
                              = move.current_pp - 1]_vars

\* C11: whenever a step queues the line that a side's active Pokemon used a
\* move, that Pokemon had HP left before the step.
C11_FaintedNeverActs ==
    [][Next =>
          LET shown == ShownMessages(current_message', message_queue')
              acted(who) == \E m \in shown : m.text = "used" /\ m.who = who
          IN  /\ (phase # PHASE_MESSAGE /\ acted("player")) =>
                     Active(player_party, player_index).current_hp > 0
              /\ (phase # PHASE_MESSAGE /\ acted("enemy")) =>
                     Active(enemy_party, enemy_index).current_hp > 0]_vars

\* ------------------------------------------- HP under every HP operation

\* heal without the cap at max HP
HealUncapped(p, amount) == [p EXCEPT !.current_hp = p.current_hp + amount]

\* Pokemon.heal
Heal(p, amount) == [p EXCEPT !.current_hp = Min(p.max_hp, p.current_hp + amount)]

\* The damage and heal amounts followed: none, some, more than any max HP
HpAmounts == {0, 7, 1000}

\* The experience amounts followed
ExpAmounts == {40}

\* A call of take_damage(amount) on the player's active Pokemon
PokemonTakeDamage(amount) ==
    /\ HasActive(player_party, player_index)
    /\ player_party' = [player_party EXCEPT
                           ![player_index + 1] = TakeDamage(@, amount)]
    /\ UNCHANGED <<ui_vars, is_wild, can_run, enemy_party, player_index,
                   enemy_index, escape_attempts, turn_count, observer_vars>>

\* A call of heal(amount) on the player's active Pokemon
PokemonHeal(amount) ==
    /\ HasActive(player_party, player_index)
    /\ player_party' = [player_party EXCEPT
                           ![player_index + 1] = Heal(@, amount)]
    /\ UNCHANGED <<ui_vars, is_wild, can_run, enemy_party, player_index,
                   enemy_index, escape_attempts, turn_count, observer_vars>>

\* A call of gain_exp(amount) on the player's active Pokemon
PokemonGainExp(amount) ==
    /\ HasActive(player_party, player_index)
    /\ exp_awarded + amount <= MaxAwardedExp
    /\ \E after \in {GainExp(Active(player_party, player_index), amount)} :
          /\ player_party' = [player_party EXCEPT ![player_index + 1] = after]
          /\ exp_awarded' = exp_awarded + after.exp
                            - Active(player_party, player_index).exp
    /\ UNCHANGED <<ui_vars, is_wild, can_run, enemy_party, player_index,
                   enemy_index, escape_attempts, turn_count, last_call,
                   last_result, rng_draws>>

HpNext ==
    \/ Next
    \/ \E amount \in HpAmounts : PokemonTakeDamage(amount)
    \/ \E amount \in HpAmounts : PokemonHeal(amount)
    \/ \E amount \in ExpAmounts : PokemonGainExp(amount)
    \/ PokemonFullHeal

\* The saved HP the battles of HpSpec start from; the operations reach the
\* other values
HpStart == {2}

HpInit == Enter(PlayerLevels, HpStart)

\* The battle with the HP operations of Pokemon called in between
HpSpec == HpInit /\ [][HpNext]_vars

\* C12: every Pokemon of both parties has 0 <= current HP <= max HP.
C12_HpWithinBounds ==
    /\ \A i \in DOMAIN player_party :
          /\ player_party[i].current_hp >= 0
          /\ player_party[i].current_hp <= player_party[i].max_hp
    /\ \A i \in DOMAIN enemy_party :
          /\ enemy_party[i].current_hp >= 0
          /\ enemy_party[i].current_hp <= enemy_party[i].max_hp

\* C12 witness: a Pokemon of the player that gained a level stands at its
\* raised max HP
C12_LevelUpAtFullHp ==
    \E i \in DOMAIN player_party :
        /\ player_party[i].level > 5
        /\ player_party[i].current_hp = player_party[i].max_hp
        /\ exp_awarded > 0

\* ------------------------------------------------ calls of the pure functions

\* The state BattleState.__init__ leaves, before any battle is entered, with
\* one call of a module function of damage_calc, type_chart, stats or Pokemon
\* about to be made: last_call holds the function and its arguments.
Pending(calls) ==
    /\ phase = PHASE_INTRO
    /\ is_wild = TRUE
    /\ can_run = TRUE
    /\ message_queue = <<>>
    /\ current_message = NoMessage
    /\ text_complete = FALSE
    /\ menu_mode = "main"
    /\ menu_cursor = 0
    /\ popped = FALSE
    /\ player_party = <<>>
    /\ enemy_party = <<>>
    /\ player_index = 0
    /\ enemy_index = 0
    /\ escape_attempts = 0
    /\ turn_count = 0
    /\ exp_awarded = 0
    /\ last_call \in calls
    /\ last_result = NoResult
    /\ rng_draws = 0

\* The largest attack, defense or special stat handed to calculate_damage
MaxCalcStat == 300

\* The type names of ALL_TYPES
TypeNames == {ALL_TYPES[i] : i \in DOMAIN ALL_TYPES}

\* The attackers handed to calculate_damage: a weak one at level 1 and a
\* strong one at level 100, with and without the ghost type
CalcAttackers ==
    {[level |-> ls.level, types |-> ts,
      stats |-> [attack |-> ls.stat, special |-> ls.stat],
      base_stats |-> [speed |-> 90]] :
        ls \in {[level |-> 1, stat |-> 5], [level |-> 100, stat |-> MaxCalcStat]},
        ts \in {<<"normal">>, <<"ghost", "poison">>}}

\* The type lists of a Pokemon: one type or two
TypeLists ==
    {<<t>> : t \in TypeNames} \cup {<<t, u>> : t \in TypeNames, u \in TypeNames}

\* The defenders: every type list; a defense and special of 0 is one no
\* Pokemon has but the function accepts
CalcDefenders ==
    {[types |-> ts, stats |-> [defense |-> d, special |-> d]] :
        ts \in TypeLists, d \in {0, 5, MaxCalcStat}}

\* The moves: every type, without and with power
CalcMoves == {[type |-> t, power |-> p] : t \in TypeNames, p \in {0, 40}}

CalculateDamageCalls ==
    {[op |-> "calculate_damage", attacker |-> attacker, defender |-> defender,
      move |-> move] :
        attacker \in CalcAttackers, defender \in CalcDefenders,
        move \in CalcMoves}

\* The call calculate_damage(attacker, defender, move). A power of 0 returns
\* and a defense of 0 raises before any random number is drawn; otherwise
\* random.random() decides the critical hit and randint(217, 255) the roll.
CallCalculateDamage ==
    /\ last_call.op = "calculate_damage"
    /\ last_result = NoResult
    /\ \E early \in {CalculateDamage(last_call.attacker, last_call.defender,
                                     last_call.move, FALSE, 255)} :
         IF last_call.move.power = 0 \/ early.raised # ""
         THEN last_result' = early /\ rng_draws' = 0
         ELSE /\ last_result' \in DamageOutcomes(last_call.attacker,
                                                 last_call.defender,
                                                 last_call.move)
              /\ rng_draws' = 2
    /\ UNCHANGED <<ui_vars, engine_vars, exp_awarded, last_call>>

\* The type names looked up: the fifteen of the chart and one it lacks
LookupTypes == TypeNames \cup {"fairy"}

GetTypeEffectivenessCalls ==
    {[op |-> "get_type_effectiveness", attack_type |-> t, defend_type |-> d] :
        t \in LookupTypes, d \in LookupTypes}

\* The call get_type_effectiveness(attack_type, defend_type), in halves
CallGetTypeEffectiveness ==
    /\ last_call.op = "get_type_effectiveness"
    /\ last_result = NoResult
    /\ last_result' = [value |-> GetTypeEffectiveness(last_call.attack_type,
                                                      last_call.defend_type)]
    /\ UNCHANGED <<ui_vars, engine_vars, exp_awarded, last_call, rng_draws>>

GetAllEffectivenessCalls ==
    {[op |-> "get_all_effectiveness", attack_type |-> t, defend_types |-> ds] :
        t \in TypeNames, ds \in TypeLists}

\* The call get_all_effectiveness(attack_type, defend_types), in quarters
CallGetAllEffectiveness ==
    /\ last_call.op = "get_all_effectiveness"
    /\ last_result = NoResult
    /\ last_result' = [value |-> GetAllEffectiveness(last_call.attack_type,
                                                     last_call.defend_types)]
    /\ UNCHANGED <<ui_vars, engine_vars, exp_awarded, last_call, rng_draws>>

\* The arguments of calculate_stat and calculate_hp: a low, a usual and the
\* highest base stat, every IV, no, some and the most stat experience, every
\* level
StatCalls ==
    {[op |-> f, base |-> base, iv |-> iv, ev |-> ev, level |-> level] :
        f \in {"calculate_stat", "calculate_hp"}, base \in {1, 35, 255},
        iv \in 0..15, ev \in {0, 2560, 65535}, level \in 1..100}

\* The call calculate_stat(base, iv, ev, level)
CallCalculateStat ==
    /\ last_call.op = "calculate_stat"
    /\ last_result = NoResult
    /\ last_result' = [value |-> CalculateStat(last_call.base, last_call.iv,
                                               last_call.ev, last_call.level)]
    /\ UNCHANGED <<ui_vars, engine_vars, exp_awarded, last_call, rng_draws>>

\* The call calculate_hp(base, iv, ev, level)
CallCalculateHp ==
    /\ last_call.op = "calculate_hp"
    /\ last_result = NoResult
    /\ last_result' = [value |-> CalculateHp(last_call.base, last_call.iv,
                                             last_call.ev, last_call.level)]
    /\ UNCHANGED <<ui_vars, engine_vars, exp_awarded, last_call, rng_draws>>

ExpForLevelCalls == {[op |-> "_exp_for_level", level |-> n] : n \in 1..100}

\* The call Pokemon._exp_for_level(level)
CallExpForLevel ==
    /\ last_call.op = "_exp_for_level"
    /\ last_result = NoResult
    /\ last_result' = [value |-> ExpForLevel(last_call.level)]
    /\ UNCHANGED <<ui_vars, engine_vars, exp_awarded, last_call, rng_draws>>

PokemonCalls ==
    {[op |-> "Pokemon", species |-> sp, level |-> n] :
        sp \in DOMAIN BASE_STATS, n \in 1..100}

\* The call Pokemon(species, level): the four random.randint(0, 15) draws
\* give the IVs, last_result holds the new Pokemon
CallPokemon ==
    /\ last_call.op = "Pokemon"
    /\ last_result = NoResult
    /\ \E drawn \in IvDraws :
          last_result' = [value |-> NewPokemon(last_call.species,
                                               last_call.level, drawn)]
    /\ rng_draws' = 4
    /\ UNCHANGED <<ui_vars, engine_vars, exp_awarded, last_call>>

BattleManagerCalls ==
    {[op |-> "BattleManager", player_party |-> party, species |-> sp,
      level |-> n] :
        party \in PartyInputs(PlayerLevels, SavedHp), sp \in EnemySpecies,
        n \in EnemyLevels}

\* The call BattleManager(player_party, enemy_pokemon): last_result holds the
\* rosters and the active indices of the new manager
CallBattleManager ==
    /\ last_call.op = "BattleManager"
    /\ last_result = NoResult
    /\ \E drawn \in IvDraws :
          last_result' = [value |-> BattleManagerInit(last_call.player_party,
                                                      last_call.species,
                                                      last_call.level, drawn)]
    /\ UNCHANGED <<ui_vars, engine_vars, exp_awarded, last_call, rng_draws>>

\* The longest move list of the Pokemon handed to the AI
MaxMoves == 3

\* The moves of those Pokemon, each with PP left or used up; SLAM at accuracy
\* 50 scores like TACKLE, and the normal moves score 0 against a ghost
AiMoves ==
    {[m EXCEPT !.current_pp = pp] :
        m \in {Move("TACKLE", 40, "normal", 35), Move("GROWL", 0, "normal", 40),
               Move("LICK", 20, "ghost", 30),
               [Move("SLAM", 80, "normal", 20) EXCEPT !.accuracy = 50]},
        pp \in {0, 5}}

ChooseMoveCalls ==
    {[op |-> "choose_move", difficulty |-> d,
      attacker |-> [types |-> ts, moves |-> moves],
      defender |-> [types |-> defend_types]] :
        d \in {"easy", "normal", "hard"},
        ts \in {<<"normal">>, <<"ghost", "poison">>},
        moves \in UNION {[1..n -> AiMoves] : n \in 0..MaxMoves},
        defend_types \in {<<"normal">>, <<"ghost">>, <<"psychic">>,
                          <<"rock", "ground">>}}

\* The call BattleAI(difficulty).choose_move(attacker, defender): easy draws
\* random.choice, hard draws nothing, the others draw random.random() and
\* then, one time in two, random.choice; no draw when no move has PP left
CallChooseMove ==
    /\ last_call.op = "choose_move"
    /\ last_result = NoResult
    /\ \E smart \in {ChooseMove("hard", last_call.attacker, last_call.defender)},
          any \in {ChooseMove("easy", last_call.attacker, last_call.defender)} :
         \E r \in IF AvailableMoves(last_call.attacker) = <<>>
                  THEN {[value |-> m, draws |-> 0] : m \in smart}
                  ELSE CASE last_call.difficulty = "easy" ->
                                {[value |-> m, draws |-> 1] : m \in any}
                         [] last_call.difficulty = "hard" ->
                                {[value |-> m, draws |-> 0] : m \in smart}
                         [] OTHER ->
                                {[value |-> m, draws |-> 1] : m \in smart}
                                \cup {[value |-> m, draws |-> 2] : m \in any} :
            /\ r.value \in ChooseMove(last_call.difficulty, last_call.attacker,
                                      last_call.defender)
            /\ last_result' = [value |-> r.value]
            /\ rng_draws' = r.draws
    /\ UNCHANGED <<ui_vars, engine_vars, exp_awarded, last_call>>

\* The longest team handed to should_switch
MaxTeam == 3

\* The team members: a fire type with TACKLE, an electric type with THUNDER
\* SHOCK, a grass type with VINE WHIP and THUNDER SHOCK, each fainted, at half
\* or at full HP
AiTeamMembers ==
    {[types |-> k.types, moves |-> k.moves, current_hp |-> hp, max_hp |-> 20] :
        k \in {[types |-> <<"fire">>,
                moves |-> <<Move("TACKLE", 40, "normal", 35)>>],
               [types |-> <<"electric">>,
                moves |-> <<Move("THUNDER SHOCK", 40, "electric", 30)>>],
               [types |-> <<"grass">>,
                moves |-> <<Move("VINE WHIP", 35, "grass", 10),
                            Move("THUNDER SHOCK", 40, "electric", 30)>>]},
        hp \in {0, 10, 20}}

\* current is the slot of team handed over as the current Pokemon
ShouldSwitchCalls ==
    {[op |-> "should_switch", difficulty |-> d, current |-> c, team |-> team,
      opponent |-> [types |-> ts]] :
        d \in {"easy", "normal", "hard"}, c \in 1..MaxTeam,
        team \in UNION {[1..n -> AiTeamMembers] : n \in 1..MaxTeam},
        ts \in {<<"water">>, <<"normal">>}}

\* The call BattleAI(difficulty).should_switch(team[current], team, opponent)
CallShouldSwitch ==
    /\ last_call.op = "should_switch"
    /\ last_result = NoResult
    /\ last_result' = [value |-> ShouldSwitch(last_call.difficulty,
                                              last_call.current, last_call.team,
                                              last_call.opponent)]
    /\ UNCHANGED <<ui_vars, engine_vars, exp_awarded, last_call, rng_draws>>

CalcInit ==
    \/ Pending(CalculateDamageCalls)
    \/ Pending(GetTypeEffectivenessCalls)
    \/ Pending(GetAllEffectivenessCalls)
    \/ Pending(StatCalls)
    \/ Pending(ExpForLevelCalls)
    \/ Pending(PokemonCalls)
    \/ Pending(BattleManagerCalls)
    \/ Pending(ChooseMoveCalls)
    \/ Pending({call \in ShouldSwitchCalls : call.current <= Len(call.team)})

CalcNext ==
    \/ CallCalculateDamage
    \/ CallGetTypeEffectiveness
    \/ CallGetAllEffectiveness
    \/ CallCalculateStat
    \/ CallCalculateHp
    \/ CallExpForLevel
    \/ CallPokemon
    \/ CallBattleManager
    \/ CallChooseMove
    \/ CallShouldSwitch

\* The pure functions of the battle package, each called once with arguments
\* drawn from the sets above
CalcSpec == CalcInit /\ [][CalcNext]_vars

\* The call of the function op has been made and last_result holds its outcome
Called(op) == last_call.op = op /\ last_result # NoResult

\* C13: a call of calculate_damage that returns gives damage 0 and multiplier
\* 1.0 for a move of power 0; for a move of positive power it gives damage 0
\* when the defender has a type the move's type does not affect, and damage
\* of at least 1 otherwise, whatever the critical-hit outcome and the roll.
C13_DamageFloor ==
    (Called("calculate_damage") /\ last_result.raised = "") =>
        LET move   == last_call.move
            types  == last_call.defender.types
            immune == \E i \in DOMAIN types :
                          GetTypeEffectiveness(move.type, types[i]) = 0
        IN  IF move.power = 0
            THEN last_result.damage = 0 /\ last_result.effectiveness = 4
            ELSE IF immune
                 THEN last_result.damage = 0
                 ELSE last_result.damage >= 1

\* A doubly resisted weak hit whose product truncates to 0 is returned as 1
C13_FloorLiftsWeakHit ==
    /\ Called("calculate_damage")
    /\ last_call.move.power > 0
    /\ last_call.defender.stats.defense = MaxCalcStat
    /\ last_call.attacker.stats.attack = 5
    /\ last_result.effectiveness = 1
    /\ last_result.damage = 1

\* C14: calculate_damage returns a result, and raises nothing, for every
\* attacker, defender and move, a defender whose defense and special are 0
\* included.
C14_ZeroDefenseReturns ==
    Called("calculate_damage") => last_result.raised = ""

\* ------------------------------------------------- the engine in an encounter

\* A call of take_damage(amount) on the enemy's active Pokemon
EnemyTakeDamage(amount) ==
    /\ HasActive(enemy_party, enemy_index)
    /\ enemy_party' = [enemy_party EXCEPT
                          ![enemy_index + 1] = TakeDamage(@, amount)]
    /\ UNCHANGED <<ui_vars, is_wild, can_run, player_party, player_index,
                   enemy_index, escape_attempts, turn_count, observer_vars>>

EncounterNext ==
    \/ TryRun
    \/ \E ball_type \in Balls : TryCatch(ball_type)
    \/ \E amount \in HpAmounts : EnemyTakeDamage(amount)

\* The battle manager under run and catch attempts while the enemy is hurt
EncounterSpec == HpInit /\ [][EncounterNext]_vars

\* C15: a try_catch("masterball") call in a wild battle with an active enemy
\* returns success and draws no random number, whatever the enemy's current
\* and maximum HP.
C15_MasterBallAlwaysCatches ==
    [][(is_wild /\ HasActive(enemy_party, enemy_index)
        /\ TryCatch("masterball"))
       => (last_result'.value = "True" /\ rng_draws' = 0)]_vars

\* The Master Ball caught an enemy that was hurt but had not fainted
C15_MasterBallOnHurtEnemy ==
    /\ is_wild
    /\ HasActive(enemy_party, enemy_index)
    /\ Active(enemy_party, enemy_index).current_hp > 0
    /\ Active(enemy_party, enemy_index).current_hp
         < Active(enemy_party, enemy_index).max_hp
    /\ last_call.op = "try_catch"
    /\ last_call.ball = "masterball"
    /\ last_result.value = "True"

\* C16: the escape counter never decreases, and a try_run call in a wild
\* battle with both Pokemon active makes it k = counter + 1 and compares the
\* 0..255 draw against (player_speed * 32) / max(1, enemy_speed // 4) + 30 * k;
\* every draw that escaped against the odds of the attempt before escapes
\* against these.
C16_EscapeOddsGrow ==
    [][/\ escape_attempts' >= escape_attempts
       /\ (/\ is_wild
           /\ HasActive(player_party, player_index)
           /\ HasActive(enemy_party, enemy_index)
           /\ TryRun)
          => LET speed   == Active(player_party, player_index).stats.speed
                 quarter == Max(1, Active(enemy_party, enemy_index).stats.speed
                                   \div 4)
                 k       == escape_attempts + 1
                 escapes(n, draw) ==
                     draw * quarter < speed * 32 + 30 * n * quarter
             IN  /\ escape_attempts' = k
                 /\ last_result'.value
                      \in {PyBool(escapes(k, draw)) : draw \in 0..255}
                 /\ \A draw \in 0..255 :
                        escapes(k - 1, draw) => escapes(k, draw)]_vars

\* A second attempt escaped from an enemy whose speed let the draw 255 fail
\* the first one
C16_SecondAttemptEscapes ==
    /\ is_wild
    /\ HasActive(player_party, player_index)
    /\ HasActive(enemy_party, enemy_index)
    /\ Active(player_party, player_index).stats.speed * 32
         <= (255 - 30) * (Active(enemy_party, enemy_index).stats.speed \div 4)
    /\ escape_attempts = 2
    /\ last_call.op = "try_run"
    /\ last_result.value = "True"

\* The product of the two single lookups of a type pair, in quarters
C17_PairProduct(attack_type, defend_types) ==
    GetTypeEffectiveness(attack_type, defend_types[1])
    * GetTypeEffectiveness(attack_type, defend_types[2])

\* Every single lookup is 0.0, 0.5, 1.0 or 2.0, and 1.0 when the attack type
\* or the pair is absent from TYPE_CHART
C17_LookupInRange ==
    Called("get_type_effectiveness") =>
        /\ last_result.value \in {0, 1, 2, 4}
        /\ (\/ last_call.attack_type \notin DOMAIN TYPE_CHART
            \/ last_call.defend_type
                 \notin DOMAIN TYPE_CHART[last_call.attack_type])
           => last_result.value = 2

\* get_all_effectiveness of a type pair is the product of the single lookups
C17_CombinedIsProduct ==
    (Called("get_all_effectiveness") /\ Len(last_call.defend_types) = 2) =>
        last_result.value = C17_PairProduct(last_call.attack_type,
                                        last_call.defend_types)

\* The multiplier calculate_damage returns against a defender of two types is
\* the product of the single lookups, for the moves whose power is in powers
C17_DamageIsProduct(powers) ==
    (/\ Called("calculate_damage")
     /\ last_result.raised = ""
     /\ last_call.move.power \in powers
     /\ Len(last_call.defender.types) = 2) =>
        last_result.effectiveness = C17_PairProduct(last_call.move.type,
                                                last_call.defender.types)

\* C17 as stated: the single lookups are in {0, 0.5, 1, 2} with 1.0 for what
\* the table lacks, get_all_effectiveness(t, [a, b]) is the product of the
\* lookups of a and b, and the multiplier returned by calculate_damage is that
\* product for every move.
C17_ProductForEveryMove ==
    C17_LookupInRange /\ C17_CombinedIsProduct /\ C17_DamageIsProduct({0, 40})

\* C17 amended: the same, the multiplier returned by calculate_damage being
\* the product for every move of positive power (a move of power 0 returns
\* 1.0 before the types are looked at).
C17_ProductForDamagingMoves ==
    C17_LookupInRange /\ C17_CombinedIsProduct /\ C17_DamageIsProduct({40})

\* A damaging move met two resisting types and came back with 0.25
C17_DoublyResistedMove ==
    /\ Called("calculate_damage")
    /\ last_call.move.power > 0
    /\ Len(last_call.defender.types) = 2
    /\ last_call.defender.types[1] # last_call.defender.types[2]
    /\ last_result.raised = ""
    /\ last_result.effectiveness = 1

\* C18: the lookup of a ghost attack against a psychic defender is 0.0, and
\* a ghost move of positive power against a defender that has psychic among
\* its types deals 0 damage.
C18_GhostCannotHurtPsychic ==
    /\ (/\ Called("get_type_effectiveness")
        /\ last_call.attack_type = "ghost"
        /\ last_call.defend_type = "psychic") => last_result.value = 0
    /\ (/\ Called("calculate_damage")
        /\ last_result.raised = ""
        /\ last_call.move.type = "ghost"
        /\ last_call.move.power > 0
        /\ \E i \in DOMAIN last_call.defender.types :
              last_call.defender.types[i] = "psychic") => last_result.damage = 0

\* A level-100 ghost used a ghost move on a ghost and psychic defender: the
\* doubled lookup against ghost is cancelled by the psychic one
C18_GhostMoveOnGhostPsychic ==
    /\ Called("calculate_damage")
    /\ last_call.move = [type |-> "ghost", power |-> 40]
    /\ last_call.attacker.level = 100
    /\ last_call.attacker.types = <<"ghost", "poison">>
    /\ last_call.defender.types = <<"ghost", "psychic">>
    /\ last_call.defender.stats.defense = 5
    /\ last_result.raised = ""
    /\ last_result.damage = 0

\* C19: calculate_stat and calculate_hp return at least 1, and for a level
\* below 100 no more than they return for the same base stat, IV and EV one
\* level higher.
C19_StatsGrowWithLevel ==
    /\ Called("calculate_stat") =>
          /\ last_result.value >= 1
          /\ last_call.level < 100 =>
                last_result.value <= CalculateStat(last_call.base, last_call.iv,
                                                   last_call.ev,
                                                   last_call.level + 1)
    /\ Called("calculate_hp") =>
          /\ last_result.value >= 1
          /\ last_call.level < 100 =>
                last_result.value <= CalculateHp(last_call.base, last_call.iv,
                                                 last_call.ev,
                                                 last_call.level + 1)

\* A stat that stays the same from one level to the next: the floor of the
\* formula swallows the step
C19_StatPlateau ==
    /\ Called("calculate_stat")
    /\ last_call.level < 100
    /\ last_call.iv = 15
    /\ last_call.ev = 65535
    /\ last_result.value = CalculateStat(last_call.base, last_call.iv,
                                         last_call.ev, last_call.level + 1)

\* C20: _exp_for_level(n) returns floor(1.2*n^3 - 15*n^2 + 100*n - 140), that
\* is floor((6*n^3 - 75*n^2 + 500*n - 700) / 5), for every level n of 1..100,
\* and a Pokemon created at level n starts with that many experience points.
C20_ThresholdIsFloor ==
    LET n      == last_call.level
        floor5 == (6 * n * n * n - 75 * n * n + 500 * n - 700) \div 5
    IN  /\ Called("_exp_for_level") => last_result.value = floor5
        /\ Called("Pokemon") => last_result.value.exp = floor5

\* C21: BattleManager built from an empty player party has a player roster
\* that is not empty and an active player Pokemon with HP left.
C21_EmptyPartyGetsStarter ==
    (Called("BattleManager") /\ last_call.player_party = <<>>) =>
        LET bm == last_result.value
        IN  /\ bm.player_party # <<>>
            /\ HasActive(bm.player_party, bm.player_index)
            /\ Active(bm.player_party, bm.player_index).current_hp > 0

\* The manager built from an empty party holds the level-5 PIKACHU starter
C21_StarterIsPikachu ==
    /\ Called("BattleManager")
    /\ last_call.player_party = <<>>
    /\ Len(last_result.value.player_party) = 1
    /\ last_result.value.player_party[1].species = "PIKACHU"
    /\ last_result.value.player_party[1].level = 5
    /\ last_result.value.player_index = 0

TurnSpec == EnterAgainst(PlayerLevels, HpStart, {10}) /\ [][Next]_vars

\* The lines a step queued, in order: the line now shown and the queue behind
\* it, without the lines that were already waiting
QueuedLines ==
    LET shown == <<current_message'>> \o message_queue'
    IN  SubSeq(shown, Len(message_queue) + 1, Len(shown))

\* C23: in a step that executes a full turn at most two moves are used; when
\* one side's speed is strictly greater its move comes first; the other side
\* uses its move exactly when it has HP left after that first move, and
\* otherwise the first side's HP is what it was.
C23_FasterActsFirst ==
    [][(/\ KeyA_MoveSelect
        /\ HasActive(player_party, player_index)
        /\ HasActive(enemy_party, enemy_index)
        /\ menu_cursor < Len(Active(player_party, player_index).moves))
       => LET used    == SelectSeq(QueuedLines, LAMBDA m : m.text = "used")
              pspeed  == Active(player_party, player_index).stats.speed
              espeed  == Active(enemy_party, enemy_index).stats.speed
              hp(who) == IF who = "player"
                         THEN Active(player_party, player_index).current_hp
                         ELSE Active(enemy_party, enemy_index).current_hp
              hp_after(who) ==
                  IF who = "player"
                  THEN Active(player_party', player_index').current_hp
                  ELSE Active(enemy_party', enemy_index').current_hp
              first   == used[1].who
              second  == IF first = "player" THEN "enemy" ELSE "player"
          IN  /\ Len(used) \in {1, 2}
              /\ pspeed > espeed => first = "player"
              /\ espeed > pspeed => first = "enemy"
              /\ Len(used) = 2 <=> hp_after(second) > 0
              /\ Len(used) = 2 => used[2].who = second
              /\ hp_after(second) = 0 => hp_after(first) = hp(first)]_vars

\* The faster enemy moved first and knocked the player's Pokemon out, whose
\* move was not used
C23_SlowerSideKnockedOut ==
    /\ phase = PHASE_MESSAGE
    /\ current_message.text = "used"
    /\ current_message.who = "enemy"
    /\ HasActive(player_party, player_index)
    /\ HasActive(enemy_party, enemy_index)
    /\ Active(enemy_party, enemy_index).stats.speed
         > Active(player_party, player_index).stats.speed
    /\ Active(player_party, player_index).current_hp = 0
    /\ \A i \in DOMAIN message_queue : message_queue[i].text # "used"
    /\ \E i \in DOMAIN message_queue : message_queue[i].text = "fainted"

\* C24: in a wild battle with both Pokemon active, a Run chosen in
\* ActionSelect raises the battle manager's escape_attempts by one.
C24_RunCountsEscapeAttempt ==
    [][(/\ is_wild
        /\ HasActive(player_party, player_index)
        /\ HasActive(enemy_party, enemy_index)
        /\ SelectRun)
       => escape_attempts' = escape_attempts + 1]_vars

\* The flavor lines of _execute_move
FlavorLines ==
    {"It's super effective!", "It's not very effective...",
     "It doesn't affect the foe..."}

\* C25: when the player's Pokemon uses a move of positive power in a turn,
\* the flavor line queued about the enemy is chosen by the type effectiveness
\* of the move against the enemy's types: super effective above 1, not very
\* effective between 0 and 1, doesn't affect at 0, none at 1.
C25_FlavorFollowsEffectiveness ==
    [][(/\ KeyA_MoveSelect
        /\ HasActive(player_party, player_index)
        /\ HasActive(enemy_party, enemy_index)
        /\ menu_cursor < Len(Active(player_party, player_index).moves)
        /\ Active(player_party, player_index).moves[menu_cursor + 1].power > 0
        /\ \E i \in DOMAIN QueuedLines :
              QueuedLines[i].text = "used" /\ QueuedLines[i].who = "player")
       => LET move   == Active(player_party, player_index).moves[menu_cursor + 1]
              eff    == GetAllEffectiveness(
                            move.type, Active(enemy_party, enemy_index).types)
              flavor == {QueuedLines[i].text :
                            i \in {j \in DOMAIN QueuedLines :
                                      /\ QueuedLines[j].who = "enemy"
                                      /\ QueuedLines[j].text \in FlavorLines}}
          IN  flavor = IF eff > 4 THEN {"It's super effective!"}
                       ELSE IF eff = 0 THEN {"It doesn't affect the foe..."}
                       ELSE IF eff < 4 THEN {"It's not very effective..."}
                       ELSE {}]_vars

\* C26: (1) while lines wait in the queue a step either leaves the shown line
\* and the queue alone or shows the oldest waiting line and removes it, and
\* the phase is Message; (2) in phase Message a step changes nothing but the
\* typewriter unless it is the confirm key on a complete line; (3) the phase
\* becomes ActionSelect only with an empty queue; (4) of the lines a turn or a
\* failed Run queues, "Can't escape!" is the first, and every flavor or faint
\* line about a side follows a "used" line of the other side with no other
\* "used" line in between.
C26_MessagesInOrder ==
    [][/\ message_queue # <<>> =>
             /\ phase = PHASE_MESSAGE
             /\ \/ UNCHANGED <<current_message, message_queue>>
                \/ /\ current_message' = Head(message_queue)
                   /\ message_queue' = Tail(message_queue)
       /\ phase = PHASE_MESSAGE =>
             \/ UNCHANGED <<phase, message_queue, current_message, menu_mode,
                            menu_cursor, popped, engine_vars, observer_vars>>
             \/ text_complete /\ KeyA_Message
       /\ (phase # PHASE_ACTION_SELECT /\ phase' = PHASE_ACTION_SELECT) =>
             message_queue = <<>> /\ message_queue' = <<>>
       /\ (phase \in {PHASE_ACTION_SELECT, PHASE_MOVE_SELECT}
           /\ phase' = PHASE_MESSAGE) =>
             LET lines == QueuedLines
             IN  /\ \A j \in DOMAIN lines :
                       lines[j].text = "Can't escape!" => j = 1
                 /\ \A j \in DOMAIN lines :
                       lines[j].text \in FlavorLines \cup {"fainted"} =>
                           \E i \in 1..(j - 1) :
                              /\ lines[i].text = "used"
                              /\ lines[i].who # lines[j].who
                              /\ \A k \in (i + 1)..(j - 1) :
                                    lines[k].text # "used"]_vars

\* A failed Run is on show with the enemy's move and the faint it caused
\* waiting behind it
C26_FailedRunThenEnemyLines ==
    /\ phase = PHASE_MESSAGE
    /\ current_message.text = "Can't escape!"
    /\ Len(message_queue) >= 2
    /\ message_queue[1].text = "used"
    /\ message_queue[1].who = "enemy"
    /\ message_queue[Len(message_queue)].text = "fainted"

\* C27: for difficulty hard, when some move has PP left, choose_move returns
\* the move with PP left whose score is the greatest and, among those of
\* greatest score, the first in the move list. The score, times 800, is
\* 10 * 800 for power 0 and otherwise power * effectiveness in quarters
\* * (3 with STAB, else 2) * accuracy in percent.
C27_HardPicksFirstBest ==
    (Called("choose_move") /\ last_call.difficulty = "hard") =>
        LET moves      == last_call.attacker.moves
            candidates == {i \in DOMAIN moves : moves[i].current_pp > 0}
            stab(m)    == IF \E k \in DOMAIN last_call.attacker.types :
                                last_call.attacker.types[k] = m.type
                          THEN 3 ELSE 2
            score(m)   == IF m.power = 0
                          THEN 10 * 800
                          ELSE m.power
                               * GetAllEffectiveness(m.type,
                                                     last_call.defender.types)
                               * stab(m) * m.accuracy
        IN  candidates # {} =>
               \E i \in candidates :
                  /\ last_result.value = moves[i]
                  /\ \A j \in candidates :
                        /\ score(moves[j]) <= score(moves[i])
                        /\ score(moves[j]) = score(moves[i]) =>
                               (i <= j \/ moves[j] = moves[i])

\* Against a ghost SLAM and TACKLE both score 0, and the first of them is
\* returned
C27_AllZeroKeepsFirst ==
    /\ Called("choose_move")
    /\ last_call.difficulty = "hard"
    /\ last_call.defender.types = <<"ghost">>
    /\ Len(last_call.attacker.moves) = 2
    /\ last_call.attacker.moves[1].name = "SLAM"
    /\ last_call.attacker.moves[2].name = "TACKLE"
    /\ last_call.attacker.moves[1].current_pp > 0
    /\ last_call.attacker.moves[2].current_pp > 0
    /\ last_result.value.name = "SLAM"

\* C28: should_switch returns None for difficulty easy; for the others it
\* returns None exactly when no team member other than the current one has HP
\* left and a matchup score more than 50 above the current one's, and
\* otherwise the index of such a member.
C28_SwitchNeedsMargin ==
    Called("should_switch") =>
        LET team     == last_call.team
            opponent == last_call.opponent
            mine     == MatchupScore(team[last_call.current], opponent)
            better(i) ==
                LET theirs == MatchupScore(team[i], opponent)
                IN  theirs.num * mine.den
                        > mine.num * theirs.den + 50 * theirs.den * mine.den
            eligible == {i \in DOMAIN team : /\ i # last_call.current
                                             /\ team[i].current_hp > 0
                                             /\ better(i)}
        IN  IF last_call.difficulty = "easy" \/ eligible = {}
            THEN last_result.value = NoSwitch
            ELSE /\ last_result.value.switch
                 /\ last_result.value.index + 1 \in eligible

\* The third member was chosen over a second one that also beat the current
\* Pokemon by the margin
C28_SwitchToLaterBetterMember ==
    /\ Called("should_switch")
    /\ last_call.difficulty = "hard"
    /\ last_call.current = 1
    /\ Len(last_call.team) = 3
    /\ last_call.team[1].current_hp > 0
    /\ last_call.team[2].types = <<"electric">>
    /\ last_call.team[2].current_hp = 20
    /\ last_call.opponent.types = <<"water">>
    /\ last_result.value = [switch |-> TRUE, index |-> 2]

\* ----------------------------------------------- one Pokemon over its life

\* A call of Pokemon.create(species, level) under two draws of the IVs; the
\* Pokemon followed is kept in the first party slot
GrowthCreate(species, level) ==
    /\ \E drawn \in {[attack |-> 0, defense |-> 0, speed |-> 0,
                       special |-> 0],
                      [attack |-> 15, defense |-> 8, speed |-> 3,
                       special |-> 15]} :
          player_party' = <<NewPokemon(species, level, drawn)>>
    /\ last_call' = [op |-> "create", species |-> species, level |-> level]
    /\ last_result' = [value |-> "Pokemon", message |-> ""]
    /\ rng_draws' = 4
    /\ UNCHANGED <<ui_vars, is_wild, can_run, enemy_party, player_index,
                   enemy_index, escape_attempts, turn_count, exp_awarded>>

\* A call of gain_exp(amount) on the Pokemon followed, with its return value
GrowthGainExp(amount) ==
    /\ HasActive(player_party, player_index)
    /\ \E after \in {GainExp(Active(player_party, player_index), amount)} :
          /\ player_party' = <<after>>
          /\ last_result' =
                [value |-> PyBool(after.level
                                  > Active(player_party, player_index).level),
                 message |-> ""]
    /\ last_call' = [op |-> "gain_exp", amount |-> amount]
    /\ rng_draws' = 0
    /\ UNCHANGED <<ui_vars, is_wild, can_run, enemy_party, player_index,
                   enemy_index, escape_attempts, turn_count, exp_awarded>>

\* The Pokemon followed is saved with to_dict and Pokemon.from_dict loads
\* the record, which holds the stat experience evs
GrowthLoad(evs) ==
    /\ HasActive(player_party, player_index)
    /\ \E data \in {[ToDict(Active(player_party, player_index))
                        EXCEPT !.evs = evs]},
          drawn \in IvDraws :
          player_party' = <<FromDict(data, drawn)>>
    /\ last_call' = [op |-> "from_dict", evs |-> evs]
    /\ last_result' = [value |-> "Pokemon", message |-> ""]
    /\ rng_draws' = 4
    /\ UNCHANGED <<ui_vars, is_wild, can_run, enemy_party, player_index,
                   enemy_index, escape_attempts, turn_count, exp_awarded>>

\* The species (MEW is missing from BASE_STATS), the levels below, inside and
\* above 1..100, the amounts of experience and the stat experience of the
\* saved record that are followed
GrowthNext ==
    \/ \E species \in {"PIKACHU", "MEW"}, level \in {0, 5, 99, 101} :
          GrowthCreate(species, level)
    \/ \E amount \in {0, 300000, 1100000} : GrowthGainExp(amount)
    \/ \E v \in {0, 2560, 65535} :
          GrowthLoad([hp |-> v, attack |-> v, defense |-> v, speed |-> v,
                      special |-> v])

\* One Pokemon under creation, gain_exp and a save followed by a load
GrowthSpec == Pending({NoCall}) /\ [][GrowthNext]_vars

\* The stat block the formulas of stats.py give a Pokemon at its level, IVs
\* and EVs
C29_Formulas(p) ==
    [hp      |-> CalculateHp(p.base_stats.hp, p.ivs.hp, p.evs.hp, p.level),
     attack  |-> CalculateStat(p.base_stats.attack, p.ivs.attack,
                               p.evs.attack, p.level),
     defense |-> CalculateStat(p.base_stats.defense, p.ivs.defense,
                               p.evs.defense, p.level),
     speed   |-> CalculateStat(p.base_stats.speed, p.ivs.speed,
                               p.evs.speed, p.level),
     special |-> CalculateStat(p.base_stats.special, p.ivs.special,
                               p.evs.special, p.level)]

C29_StatsMatch ==
    \A i \in DOMAIN player_party :
       /\ player_party[i].stats = C29_Formulas(player_party[i])
       /\ player_party[i].max_hp = player_party[i].stats.hp
       /\ player_party[i].level \in 1..100

C29_NothingAtTopLevel ==
    (/\ last_call'.op = "gain_exp"
     /\ HasActive(player_party, player_index)
     /\ Active(player_party, player_index).level = 100)
    => /\ player_party' = player_party
       /\ last_result'.value = "False"

\* C29: after any sequence of creation, gain_exp and load from a saved
\* record, the stat block of the Pokemon is what the stat formulas give for
\* its level, IVs and EVs, its max HP is the hp entry of that block, and its
\* level lies in 1..100; gain_exp on a Pokemon at level 100 changes nothing
\* and returns False.
C29_StatsFollowLevel == [][C29_StatsMatch' /\ C29_NothingAtTopLevel]_vars

\* A Pokemon loaded with stat experience has gained enough for several
\* levels at once and has reached level 100
C29_GrownToTopLevel ==
    /\ last_call.op = "gain_exp"
    /\ last_result.value = "True"
    /\ HasActive(player_party, player_index)
    /\ Active(player_party, player_index).level = 100
    /\ Active(player_party, player_index).evs.hp = 2560
    /\ Active(player_party, player_index).ivs.attack = 15
    /\ Active(player_party, player_index).exp > ExpForLevel(100)

\* ------------------------------------------------- switching the active one

\* BattleManager.__init__ handed a trainer's team: enemy_team becomes the
\* enemy party as it is
BattleManagerInitTeam(party_input, enemy_team, drawn) ==
    LET loaded == [i \in DOMAIN party_input |-> FromDict(party_input[i], drawn)]
        pparty == IF loaded = <<>>
                  THEN <<NewPokemon("PIKACHU", 5, drawn)>>
                  ELSE loaded
    IN  [player_party |-> pparty, enemy_party |-> enemy_team,
         player_index |-> GetFirstAbleIndex(pparty),
         enemy_index |-> GetFirstAbleIndex(enemy_team)]

\* A battle manager built for a trainer battle against a team of one to
\* MaxParty Pokemon, beside a BattleState that was not entered
TeamInit ==
    \E party_input \in PartyInputs(PlayerLevels, HpStart), drawn \in IvDraws :
      \E enemy_team \in UNION {[1..n -> {NewPokemon(species, level, drawn) :
                                            species \in EnemySpecies,
                                            level \in EnemyLevels}] :
                                  n \in 1..MaxParty} :
        \E bm \in {BattleManagerInitTeam(party_input, enemy_team, drawn)} :
            /\ phase = PHASE_INTRO
            /\ is_wild = FALSE
            /\ can_run = TRUE
            /\ message_queue = <<>>
            /\ current_message = NoMessage
            /\ text_complete = FALSE
            /\ menu_mode = "main"
            /\ menu_cursor = 0
            /\ popped = FALSE
            /\ player_party = bm.player_party
            /\ enemy_party = bm.enemy_party
            /\ player_index = bm.player_index
            /\ enemy_index = bm.enemy_index
            /\ escape_attempts = 0
            /\ turn_count = 0
            /\ exp_awarded = 0
            /\ last_call = NoCall
            /\ last_result = NoResult
            /\ rng_draws = 0

\* switch_player_pokemon with the test of the target's HP left out
SwitchPlayerPokemonAnyHp(index) ==
    /\ last_call' = [op |-> "switch_player_pokemon", ball |-> "",
                     index |-> index]
    /\ IF 0 <= index /\ index < Len(player_party)
       THEN /\ player_index' = index
            /\ last_result' = [value |-> "True", message |-> ""]
       ELSE /\ last_result' = [value |-> "False", message |-> ""]
            /\ UNCHANGED player_index
    /\ rng_draws' = 0
    /\ UNCHANGED <<ui_vars, is_wild, can_run, player_party, enemy_party,
                   enemy_index, escape_attempts, turn_count, exp_awarded>>

\* A call of BattleManager.switch_player_pokemon(index)
SwitchPlayerPokemon(index) ==
    /\ last_call' = [op |-> "switch_player_pokemon", ball |-> "",
                     index |-> index]
    /\ IF /\ 0 <= index /\ index < Len(player_party)
          /\ player_party[index + 1].current_hp > 0
       THEN /\ player_index' = index
            /\ last_result' = [value |-> "True", message |-> ""]
       ELSE /\ last_result' = [value |-> "False", message |-> ""]
            /\ UNCHANGED player_index
    /\ rng_draws' = 0
    /\ UNCHANGED <<ui_vars, is_wild, can_run, player_party, enemy_party,
                   enemy_index, escape_attempts, turn_count, exp_awarded>>

\* A call of BattleManager.switch_enemy_pokemon(): the first able Pokemon of
\* the enemy party other than the active one
SwitchEnemyPokemon ==
    /\ last_call' = [op |-> "switch_enemy_pokemon", ball |-> "", index |-> 0]
    /\ \E able \in {{i \in DOMAIN enemy_party :
                        /\ enemy_party[i].current_hp > 0
                        /\ i - 1 # enemy_index}} :
          IF able # {}
          THEN /\ enemy_index' = (CHOOSE i \in able :
                                     \A j \in able : i <= j) - 1
               /\ last_result' = [value |-> "True", message |-> ""]
          ELSE /\ last_result' = [value |-> "False", message |-> ""]
               /\ UNCHANGED enemy_index
    /\ rng_draws' = 0
    /\ UNCHANGED <<ui_vars, is_wild, can_run, player_party, enemy_party,
                   player_index, escape_attempts, turn_count, exp_awarded>>

\* The switches with take_damage on the active Pokemon of either side in
\* between; the indices handed over run from -1 to the party size
SwitchNext ==
    \/ \E index \in (0 - 1)..MaxParty : SwitchPlayerPokemon(index)
    \/ SwitchEnemyPokemon
    \/ \E amount \in HpAmounts : PokemonTakeDamage(amount)
    \/ \E amount \in HpAmounts : EnemyTakeDamage(amount)

SwitchSpec == TeamInit /\ [][SwitchNext]_vars

C30_ActiveIndexValid ==
    /\ player_party # <<>> /\ enemy_party # <<>>
    /\ player_index \in 0..(Len(player_party) - 1)
    /\ enemy_index \in 0..(Len(enemy_party) - 1)

C30_SwitchContract ==
    /\ \A index \in (0 - 1)..MaxParty :
          SwitchPlayerPokemon(index) =>
             IF \/ index < 0
                \/ index >= Len(player_party)
                \/ player_party[index + 1].current_hp = 0
             THEN /\ last_result'.value = "False"
                  /\ player_index' = player_index
             ELSE /\ last_result'.value = "True"
                  /\ player_index' = index
                  /\ player_party'[player_index' + 1].current_hp > 0
    /\ (SwitchEnemyPokemon /\ last_result'.value = "True")
          => enemy_party'[enemy_index' + 1].current_hp > 0

\* C30: with non-empty parties the active index of each side is always an
\* index of its party; switch_player_pokemon with an index outside the party
\* or of a Pokemon at 0 HP returns False and leaves the active index as it
\* was, and a switch of either side that returns True makes a Pokemon with
\* HP above 0 the active one.
C30_SwitchKeepsIndexValid ==
    []C30_ActiveIndexValid /\ [][C30_SwitchContract]_vars

\* The enemy has switched to its second Pokemon after the first fainted,
\* while the player's second Pokemon is active and the first has fainted
C30_BothSidesSwitched ==
    /\ last_call.op = "switch_enemy_pokemon"
    /\ last_result.value = "True"
    /\ enemy_index = 1
    /\ enemy_party[1].current_hp = 0
    /\ enemy_party[2].current_hp > 0
    /\ player_index = 1
    /\ player_party[1].current_hp = 0
    /\ player_party[2].current_hp > 0

====
